---- MODULE Spec2Model ----
(***************************************************************************)
(* Sticky-routing worker pool: the consistent-hash router                  *)
(* (sticky-router.ts), the supervisor (worker-pool.ts) and the child       *)
(* runtime (worker-process.ts).                                            *)
(*                                                                         *)
(* Strings are sequences of character codes, so that the FNV-1a hash is    *)
(* computed as the code computes it.  A 32-bit unsigned hash is the pair   *)
(* <<high 16 bits, low 16 bits>>.  A JavaScript Map is a function whose    *)
(* DOMAIN is the set of its keys; a Set is a set.                          *)
(***************************************************************************)
EXTENDS Integers, Sequences, FiniteSets, TLC

\* ----------------------------------------------------------------------
\* Bounds of the model
\* ----------------------------------------------------------------------
\* virtual nodes per worker: the constructor argument of StickyRouter
VirtualNodes == 2
\* config.workerCount: slots worker-0 .. worker-(WorkerCount-1)
WorkerCount == 2
\* child processes forked for one slot in one run
MaxChildren == 2
\* requests sent in one run
MaxRequests == 2
\* what happens to the pool from outside in one run: calls of start,
\* sendRequest and stop, children that crash or are killed, heartbeats
MaxInputs == 4
\* config.workerConfig.requestTimeout
RequestTimeout == 3
\* config.restartWindow
RestartWindow == 2
\* config.maxRestartAttempts
MaxRestartAttempts == 1
\* the gracePeriod argument of stop()
GracePeriod == 1
\* the startup timeout of waitForWorkerReady (30 s in the code), in seconds
StartupTimeout == 2
\* config.restartDelay: 1_000 ms
RestartDelay == 1
\* stop() kills a child at gracePeriod + 1000 ms
KillDelay == 1

\* ----------------------------------------------------------------------
\* Identifiers
\* ----------------------------------------------------------------------
RECURSIVE NumToString(_)
\* decimal rendering of a natural number, as a template literal renders it
NumToString(n) == IF n < 10 THEN <<48 + n>> ELSE NumToString(n \div 10) \o <<48 + (n % 10)>>

\* `worker-${i}`
WorkerIdOf(i) == <<119, 111, 114, 107, 101, 114, 45>> \o NumToString(i)

\* the ids the supervisor registers
PoolWorkerIds == {WorkerIdOf(i) : i \in 0..(WorkerCount - 1)}

\* the empty string is a WorkerId too (WorkerId = string)
EmptyId == <<>>

\* worker ids handed to a stand-alone router
RouterWorkerIds == PoolWorkerIds \cup {EmptyId}

\* "user-a", "user-0"
UserA == <<117, 115, 101, 114, 45, 97>>
User0 == <<117, 115, 101, 114, 45, 48>>
Users == {UserA, User0}

\* ----------------------------------------------------------------------
\* fnv1aHash
\* ----------------------------------------------------------------------
RECURSIVE Xor(_, _, _)
\* bitwise exclusive or of the low `bits` bits of a and b
Xor(a, b, bits) ==
  IF bits = 0 THEN 0
  ELSE ((a + b) % 2) + 2 * Xor(a \div 2, b \div 2, bits - 1)

\* hash ^= c, for a character code c < 2^16
HashXor(h, c) == <<h[1], Xor(h[2], c, 16)>>

\* Math.imul(hash, 16777619) modulo 2^32; 16777619 = 2^24 + 403
HashMul(h) ==
  LET lowProd == 403 * h[2]
      lo == lowProd % 65536
      carry == lowProd \div 65536
      hi == (403 * h[1] + carry + (h[2] % 256) * 256) % 65536
  IN <<hi, lo>>

RECURSIVE HashFrom(_, _, _)
HashFrom(h, str, i) ==
  IF i > Len(str) THEN h
  ELSE HashFrom(HashMul(HashXor(h, str[i])), str, i + 1)

\* FNV offset basis 2166136261 = 0x811C9DC5
fnv1aHash(str) == HashFrom(<<33052, 40389>>, str, 1)

\* numeric order of two 32-bit hashes
HashLess(a, b) == a[1] < b[1] \/ (a[1] = b[1] /\ a[2] < b[2])

\* ----------------------------------------------------------------------
\* findNode
\* ----------------------------------------------------------------------
RECURSIVE BinarySearch(_, _, _, _)
\* the while loop of findNode, with 0-based left and right
BinarySearch(r, targetHash, left, right) ==
  IF left < right
  THEN LET mid == (left + right) \div 2
       IN IF HashLess(r[mid + 1].hash, targetHash)
          THEN BinarySearch(r, targetHash, mid + 1, right)
          ELSE BinarySearch(r, targetHash, left, mid)
  ELSE r[left + 1]

\* a lookup by the hash modulo the length of the ring
findNodeModulo(r, targetHash) == r[(targetHash[2] % Len(r)) + 1]

\* a findNode that does not wrap around: it returns the last node for a
\* target above all hashes
findNodeNoWrap(r, targetHash) == BinarySearch(r, targetHash, 0, Len(r) - 1)

\* defined for a non-empty ring only (the code throws on an empty one)
findNode(r, targetHash) ==
  IF HashLess(r[Len(r)].hash, targetHash)
  THEN r[1]
  ELSE BinarySearch(r, targetHash, 0, Len(r) - 1)

\* ----------------------------------------------------------------------
\* Ring construction
\* ----------------------------------------------------------------------
\* `${workerId}:${i}`
VirtualKey(workerId, i) == workerId \o <<58>> \o NumToString(i)

\* fnv1aHash of every virtual-node key and of every user id, computed once
VirtualKeyHash ==
  [w \in RouterWorkerIds |->
     [i \in 0..(VirtualNodes - 1) |-> fnv1aHash(VirtualKey(w, i))]]
UserHash == [u \in Users |-> fnv1aHash(u)]

RECURSIVE VirtualNodesOf(_, _)
\* the nodes pushed by the loop of addWorker, in push order, from index i
VirtualNodesOf(workerId, i) ==
  IF i >= VirtualNodes THEN <<>>
  ELSE <<[hash |-> VirtualKeyHash[workerId][i],
          workerId |-> workerId,
          virtualIndex |-> i]>> \o VirtualNodesOf(workerId, i + 1)

\* insert n behind every node whose hash is not greater (stable)
RECURSIVE InsertNode(_, _)
InsertNode(sorted, n) ==
  IF sorted = <<>> THEN <<n>>
  ELSE IF HashLess(n.hash, Head(sorted).hash)
       THEN <<n>> \o sorted
       ELSE <<Head(sorted)>> \o InsertNode(Tail(sorted), n)

RECURSIVE SortRing(_)
\* Array.prototype.sort by hash: a stable sort
SortRing(nodes) ==
  IF nodes = <<>> THEN <<>>
  ELSE InsertNode(SortRing(SubSeq(nodes, 1, Len(nodes) - 1)), nodes[Len(nodes)])

\* a removeWorker whose filter keeps the nodes it should drop
FilterRingOthers(r, workerId) == SelectSeq(r, LAMBDA node : node.workerId = workerId)

\* a removeWorker that leaves the ring as it is
FilterRingNone(r, workerId) == r

\* the filter of removeWorker
FilterRing(r, workerId) == SelectSeq(r, LAMBDA node : node.workerId # workerId)

\* ----------------------------------------------------------------------
\* State
\* ----------------------------------------------------------------------
VARIABLES
  ring,          \* StickyRouter.ring: sequence of hash ring nodes
  routerWorkers, \* StickyRouter.workers: set of worker ids
  routingCache,  \* StickyRouter.routingCache: user id -> worker id
  last,          \* result of the latest router call
  first          \* user id -> the worker its first route returned

VARIABLES
  started,       \* WorkerPool.started
  stopping,      \* WorkerPool.stopping
  workers,       \* WorkerPool.workers: worker id -> the WorkerInstance it holds
  workerOrder,   \* insertion order of the keys of WorkerPool.workers
  recs,          \* the WorkerInstance objects, by the child forked with them
  procs,         \* the child processes: the state of worker-process.ts
  inbox,         \* IPC channel supervisor -> child
  outbox,        \* IPC channel child -> supervisor
  requests,      \* the promises of sendRequestToWorker and their timers
  spawning,      \* spawnWorker calls that have not yet created their record
  restartTimers, \* armed restart timers of handleWorkerExit
  startWait,     \* the waitForWorkerReady calls of the running start()
  stopWait,      \* the children stop() waits for, and its kill time
  exits,         \* worker id -> the times of the exits handled, the pool not stopping,
                 \* since start() last spawned a child for the slot
  inputs,        \* the calls and faults so far
  config,        \* WorkerPool.config.workerConfig, which Init hands to each child
  served         \* user id -> the worker its latest request was dispatched to

VARIABLES
  processEnv,    \* process.env of the supervisor: name -> value
  childEnv,      \* the env option of the latest fork
  files,         \* the files keys/instance.key and keys/instance.id of a sandbox
  initialized,   \* WorkerSandbox.initialized
  sandboxCall,   \* the latest call on the sandbox and what it returned
  metadataFile,  \* the file sandbox.json in the sandbox root
  clock          \* Date.now() of the supervisor's process

VARIABLES
  waiter,        \* the waitForMessage call: its promise, its timer, its listener
  emitted        \* the messages the receiver has emitted, in order

routerVars == <<ring, routerWorkers, routingCache>>
sandboxVars == <<processEnv, childEnv, files, initialized, sandboxCall,
                 metadataFile, clock>>
ghostVars == <<last, first>>
poolVars == <<started, stopping, workers, workerOrder, recs, procs, inbox, outbox,
              requests, spawning, restartTimers, startWait, stopWait,
              exits, inputs, served, config>>
waitVars == <<waiter, emitted>>
vars == <<routerVars, ghostVars, poolVars, sandboxVars, waitVars>>

\* a router value: the three fields of a StickyRouter
Router(r, w, c) == [ring |-> r, workers |-> w, routingCache |-> c]
ThisRouter == Router(ring, routerWorkers, routingCache)

\* a Map without key k
MapDelete(m, k) == [x \in (DOMAIN m) \ {k} |-> m[x]]
\* a Map with m[k] = v
MapSet(m, k, v) == [x \in (DOMAIN m) \cup {k} |-> IF x = k THEN v ELSE m[x]]
EmptyMap == [x \in {} |-> <<>>]
\* new StickyRouter(virtualNodes)
EmptyRouter == Router(<<>>, {}, EmptyMap)

SetRouter(R) ==
  /\ ring' = R.ring
  /\ routerWorkers' = R.workers
  /\ routingCache' = R.routingCache

NoCall == [op |-> "none"]

\* a non-empty string is truthy, the empty string and undefined are not
Truthy(m, k) == k \in DOMAIN m /\ m[k] # <<>>

\* ----------------------------------------------------------------------
\* StickyRouter operations, as functions of a router value
\* ----------------------------------------------------------------------
\* invalidateAffectedRoutes: the body is empty, the cache is kept
invalidateAffectedRoutes(R, newWorkerId) == R.routingCache

\* addWorker without its test for a worker that is already registered
addWorkerAgain(R, workerId) ==
  LET added == Router(SortRing(R.ring \o VirtualNodesOf(workerId, 0)),
                      R.workers \cup {workerId},
                      R.routingCache)
  IN [added EXCEPT !.routingCache = invalidateAffectedRoutes(added, workerId)]

addWorker(R, workerId) ==
  IF workerId \in R.workers THEN R
  ELSE LET added == Router(SortRing(R.ring \o VirtualNodesOf(workerId, 0)),
                           R.workers \cup {workerId},
                           R.routingCache)
       IN [added EXCEPT !.routingCache = invalidateAffectedRoutes(added, workerId)]

\* removeWorker without its purge of the cache
PurgeCacheKeepsAll(cache, workerId) == cache

\* the cache entries removeWorker keeps
PurgeCache(cache, workerId) ==
  [u \in {x \in DOMAIN cache : cache[x] # workerId} |-> cache[u]]

removeWorker(R, workerId) ==
  IF workerId \notin R.workers THEN R
  ELSE Router(FilterRing(R.ring, workerId),
              R.workers \ {workerId},
              PurgeCache(R.routingCache, workerId))

\* route without its cache: every call is a ring lookup
CacheHitNever(R, userId) == FALSE

\* the cache hit test of route
CacheHit(R, userId) ==
  Truthy(R.routingCache, userId) /\ R.routingCache[userId] \in R.workers

\* route: the error flag, the decision and the router afterwards
route(R, userId) ==
  IF Len(R.ring) = 0
  THEN [error |-> TRUE, workerId |-> <<>>, isNewAssignment |-> FALSE, router |-> R]
  ELSE IF CacheHit(R, userId)
       THEN [error |-> FALSE,
             workerId |-> R.routingCache[userId],
             isNewAssignment |-> FALSE,
             router |-> R]
       ELSE LET node == findNode(R.ring, UserHash[userId])
            IN [error |-> FALSE,
                workerId |-> node.workerId,
                isNewAssignment |-> ~Truthy(R.routingCache, userId),
                router |-> [R EXCEPT !.routingCache = MapSet(@, userId, node.workerId)]]

\* a peek that answers from the cache when the user has an entry
peekCached(R, userId) ==
  IF userId \in DOMAIN R.routingCache THEN {R.routingCache[userId]}
  ELSE IF Len(R.ring) = 0 THEN {}
  ELSE {findNode(R.ring, UserHash[userId]).workerId}

\* peek: the set holding the ring lookup, empty for null
peek(R, userId) ==
  IF Len(R.ring) = 0 THEN {}
  ELSE {findNode(R.ring, UserHash[userId]).workerId}

\* forceAssign that installs no cache entry
forceAssignSkipped(R, userId, workerId) ==
  [error |-> workerId \notin R.workers, router |-> R]

\* forceAssign: throws when the worker is not registered
forceAssign(R, userId, workerId) ==
  IF workerId \notin R.workers
  THEN [error |-> TRUE, router |-> R]
  ELSE [error |-> FALSE,
        router |-> [R EXCEPT !.routingCache = MapSet(@, userId, workerId)]]

clearAssignment(R, userId) == [R EXCEPT !.routingCache = MapDelete(@, userId)]

clearCache(R) == [R EXCEPT !.routingCache = EmptyMap]

RECURSIVE AddWorkers(_, _)
\* for (const workerId of list) router.addWorker(workerId)
AddWorkers(R, list) ==
  IF list = <<>> THEN R ELSE AddWorkers(addWorker(R, Head(list)), Tail(list))

RECURSIVE ImportAssignments(_, _)
\* the second loop of fromState
ImportAssignments(R, list) ==
  IF list = <<>> THEN R
  ELSE ImportAssignments(
         IF Head(list)[2] \in R.workers
         THEN [R EXCEPT !.routingCache = MapSet(@, Head(list)[1], Head(list)[2])]
         ELSE R,
         Tail(list))

\* a fromState that imports the workers and no assignment
fromStateWorkersOnly(state) == AddWorkers(EmptyRouter, state.workers)

\* StickyRouterState: workers and assignments are arrays
\* fromState; every router here has VirtualNodes virtual nodes per worker,
\* and so has new StickyRouter(state.virtualNodes)
fromState(state) ==
  ImportAssignments(AddWorkers(EmptyRouter, state.workers), state.assignments)

\* ----------------------------------------------------------------------
\* The worker pool: state after new WorkerPool(config)
\* ----------------------------------------------------------------------
\* a child process is named by its slot and its rank among the children
\* forked for that slot
Children == 1..(WorkerCount * MaxChildren)
SlotOf(c) == WorkerIdOf((c - 1) \div MaxChildren)
ChildrenOf(w) == {c \in Children : SlotOf(c) = w}
RequestIds == 1..MaxRequests

\* no WorkerInstance, no process
NoRec == [workerId |-> <<>>, live |-> FALSE]
NoProc == [status |-> "none"]

\* the WorkerInstance built by spawnWorker
NewWorkerInstance(workerId) ==
  [workerId |-> workerId,
   live |-> TRUE,
   process |-> FALSE,
   state |-> "starting",
   health |-> "none",
   restartCount |-> 0,
   restartTimes |-> <<>>,
   pendingRequests |-> {}]

\* the module state of worker-process.ts in a freshly forked child
NewProcess(workerId) ==
  [status |-> "running",
   workerId |-> workerId,
   config |-> FALSE,
   init |-> "none",
   state |-> "starting",
   requestsProcessed |-> 0,
   errorCount |-> 0,
   activeRequests |-> {},
   answered |-> {},
   shutdownRequested |-> FALSE,
   shutdown |-> "none",
   left |-> 0]

NoStart == [active |-> FALSE, waiting |-> {}, left |-> 0]
NoStop == [waiting |-> {}, left |-> 0]

\* workerConfig of DEFAULT_WORKER_POOL_CONFIG
DEFAULT_MAX_REQUESTS == 10000
DefaultConfig ==
  config = [maxRequests |-> DEFAULT_MAX_REQUESTS, maxMemory |-> "512MB"]

InitPool ==
  /\ started = FALSE
  /\ stopping = FALSE
  /\ workers = EmptyMap
  /\ workerOrder = <<>>
  /\ recs = [c \in Children |-> NoRec]
  /\ procs = [c \in Children |-> NoProc]
  /\ inbox = [c \in Children |-> <<>>]
  /\ outbox = [c \in Children |-> <<>>]
  /\ requests = EmptyMap
  /\ spawning = {}
  /\ restartTimers = {}
  /\ startWait = NoStart
  /\ stopWait = NoStop
  /\ exits = [w \in PoolWorkerIds |-> <<>>]
  /\ inputs = 0
  /\ served = EmptyMap

\* ----------------------------------------------------------------------
\* Supervisor helpers
\* ----------------------------------------------------------------------
\* a health test that also accepts a worker that is still starting
HealthyOrStarting(rec) == rec.state \in {"ready", "busy", "starting"}

\* the state test of sendRequest and findHealthyWorker
Healthy(rec) == rec.state = "ready" \/ rec.state = "busy"

\* one more call or fault
Input == inputs < MaxInputs /\ inputs' = inputs + 1

\* the WorkerInstance objects something still refers to: the workers map, an
\* armed request timer (through pendingRequests) or a waiting stop()
Reclaim(rs, ws, waited) ==
  [c \in Children |->
     IF /\ rs[c].live
        /\ \/ \E w \in DOMAIN ws : ws[w] = c
           \/ rs[c].pendingRequests # {}
           \/ c \in waited
     THEN rs[c] ELSE NoRec]

\* process.send on the child's channel: lost when the child has exited
SendTo(ib, c, msg) ==
  IF procs[c].status = "running" THEN [ib EXCEPT ![c] = Append(@, msg)] ELSE ib

\* resolve or reject called on a promise: only the first call settles it
Settle(req, outcome) ==
  [req EXCEPT !.settles = @ + 1,
              !.outcome = IF @ = "pending" THEN outcome ELSE @]

\* the next child of slot w
FreshChild(w) == CHOOSE c \in ChildrenOf(w) :
                   /\ procs[c].status = "none"
                   /\ \A d \in ChildrenOf(w) : d < c => procs[d].status # "none"

RECURSIVE FirstHealthy(_, _, _)
\* findHealthyWorker: the first healthy record in Map order, {} for null
FirstHealthy(order, ws, rs) ==
  IF order = <<>> THEN {}
  ELSE IF Head(order) \in DOMAIN ws /\ Healthy(rs[ws[Head(order)]])
       THEN {ws[Head(order)]}
       ELSE FirstHealthy(Tail(order), ws, rs)

\* a search that returns the first worker of the Map, healthy or not
findAnyWorker ==
  IF workerOrder = <<>> THEN {} ELSE {workers[Head(workerOrder)]}

findHealthyWorker == FirstHealthy(workerOrder, workers, recs)

\* stop() after Promise.all: the map is cleared, the flags are reset
StopFinish(rs) ==
  /\ workers' = EmptyMap
  /\ workerOrder' = <<>>
  /\ started' = FALSE
  /\ stopping' = FALSE
  /\ stopWait' = NoStop
  /\ recs' = Reclaim(rs, EmptyMap, {})

\* ----------------------------------------------------------------------
\* WorkerPool.start
\* ----------------------------------------------------------------------
\* start(): registers the slots with the router and calls spawnWorker for
\* each; every spawnWorker first awaits the sandbox
Start ==
  /\ ~started
  /\ ~startWait.active
  /\ Input
  /\ SetRouter(AddWorkers(ThisRouter, [i \in 1..WorkerCount |-> WorkerIdOf(i - 1)]))
  /\ spawning' = spawning \cup {[workerId |-> w, origin |-> 0] : w \in PoolWorkerIds}
  /\ startWait' = [active |-> TRUE, waiting |-> PoolWorkerIds, left |-> StartupTimeout]
  /\ UNCHANGED <<ghostVars, sandboxVars, waitVars, config, started, stopping, workers, workerOrder, recs, procs,
                 inbox, outbox, requests, restartTimers, stopWait, exits,
                 served>>

\* spawnWorker after its awaits: the record replaces the slot's entry, the
\* child is forked and Init is sent
SpawnCreate(sp) ==
  /\ sp \in spawning
  /\ \E c \in ChildrenOf(sp.workerId) : procs[c].status = "none"
  /\ LET w == sp.workerId
         c == FreshChild(w)
     IN /\ recs' = Reclaim([recs EXCEPT ![c] = [NewWorkerInstance(w) EXCEPT !.process = TRUE]],
                           MapSet(workers, w, c), stopWait.waiting)
        /\ workers' = MapSet(workers, w, c)
        /\ workerOrder' = IF w \in DOMAIN workers THEN workerOrder
                          ELSE Append(workerOrder, w)
        /\ procs' = [procs EXCEPT ![c] = NewProcess(w)]
        /\ inbox' = [inbox EXCEPT ![c] = <<[type |-> "Init"]>>]
  /\ spawning' = spawning \ {sp}
  /\ exits' = IF sp.origin = 0 THEN [exits EXCEPT ![sp.workerId] = <<>>] ELSE exits
  /\ UNCHANGED <<ghostVars, sandboxVars, waitVars, config, routerVars, started, stopping, outbox, requests, restartTimers,
                 startWait, stopWait, inputs, served>>

\* the spawnWorker calls of start() that have created their record
Polling(w) ==
  /\ startWait.active
  /\ w \in startWait.waiting
  /\ [workerId |-> w, origin |-> 0] \notin spawning
  /\ w \in DOMAIN workers

\* a waitForWorkerReady that resolves whatever the state of the slot
StartSeesAny(w) ==
  /\ Polling(w)
  /\ IF startWait.waiting = {w}
     THEN started' = TRUE /\ startWait' = NoStart
     ELSE started' = started /\ startWait' = [startWait EXCEPT !.waiting = @ \ {w}]
  /\ UNCHANGED <<ghostVars, sandboxVars, waitVars, config, routerVars, stopping, workers, workerOrder, recs, procs, inbox,
                 outbox, requests, spawning, restartTimers, stopWait, exits,
                 inputs, served>>

\* waitForWorkerReady sees Ready; start() resolves after the last one
StartSeesReady(w) ==
  /\ Polling(w)
  /\ recs[workers[w]].state = "ready"
  /\ IF startWait.waiting = {w}
     THEN started' = TRUE /\ startWait' = NoStart
     ELSE started' = started /\ startWait' = [startWait EXCEPT !.waiting = @ \ {w}]
  /\ UNCHANGED <<ghostVars, sandboxVars, waitVars, config, routerVars, stopping, workers, workerOrder, recs, procs, inbox,
                 outbox, requests, spawning, restartTimers, stopWait, exits,
                 inputs, served>>

\* waitForWorkerReady sees Crashed: Promise.all rejects and start() throws
StartSeesCrashed(w) ==
  /\ Polling(w)
  /\ recs[workers[w]].state = "crashed"
  /\ startWait' = NoStart
  /\ UNCHANGED <<ghostVars, sandboxVars, waitVars, config, routerVars, started, stopping, workers, workerOrder, recs, procs,
                 inbox, outbox, requests, spawning, restartTimers, stopWait,
                 exits, inputs, served>>

\* the startup timer of a waitForWorkerReady fires: Promise.all rejects and
\* start() throws
StartTimeout ==
  /\ startWait.left = 0
  /\ \E w \in PoolWorkerIds : Polling(w)
  /\ startWait' = NoStart
  /\ UNCHANGED <<ghostVars, sandboxVars, waitVars, config, routerVars, started, stopping, workers, workerOrder, recs, procs,
                 inbox, outbox, requests, spawning, restartTimers, stopWait,
                 exits, inputs, served>>

\* ----------------------------------------------------------------------
\* WorkerPool.sendRequest
\* ----------------------------------------------------------------------
\* the record sendRequest dispatches to, {} when it throws
DispatchTarget(decision) ==
  IF decision.workerId \notin DOMAIN workers THEN {}
  ELSE IF Healthy(recs[workers[decision.workerId]])
       THEN {workers[decision.workerId]}
       ELSE findHealthyWorker

\* a request id not used before
FreshRequest == CHOOSE q \in RequestIds :
                  /\ q \notin DOMAIN requests
                  /\ \A r \in RequestIds : r < q => r \in DOMAIN requests

\* sendRequestToWorker: timer, pending entry, then the Request message; when
\* sendToWorker throws inside the executor the promise is rejected at once
NewRequest(u, c, forced) ==
  [userId |-> u,
   workerId |-> recs[c].workerId,
   rec |-> c,
   forced |-> forced,
   draining |-> FALSE,
   timer |-> TRUE,
   left |-> RequestTimeout,
   settles |-> IF recs[c].process THEN 0 ELSE 1,
   outcome |-> IF recs[c].process THEN "pending" ELSE "NotRunning"]

\* the timer of a request is cleared or has fired
TimerOff(req) ==
  [userId |-> <<>>, workerId |-> <<>>, rec |-> 0, forced |-> FALSE,
   draining |-> req.draining, timer |-> FALSE, left |-> 0, settles |-> req.settles,
   outcome |-> req.outcome]

\* route(userId) finds the slot's record healthy
Primary(res) ==
  /\ ~res.error
  /\ res.workerId \in DOMAIN workers
  /\ Healthy(recs[workers[res.workerId]])

\* the error sendRequest throws before it dispatches, "none" when it
\* dispatches
SendError(u) ==
  IF ~started THEN "NotStarted"
  ELSE LET res == route(ThisRouter, u)
       IN IF res.error THEN "NoWorkers"
          ELSE IF res.workerId \notin DOMAIN workers THEN "WorkerNotFound"
          ELSE IF DispatchTarget(res) = {} THEN "NoHealthyWorkers"
          ELSE "none"

SendRequest(u) ==
  /\ started
  /\ \E q \in RequestIds : q \notin DOMAIN requests
  /\ Input
  /\ LET res == route(ThisRouter, u)
         target == IF res.error THEN {} ELSE DispatchTarget(res)
         q == FreshRequest
     IN IF SendError(u) # "none"
        THEN /\ SetRouter(res.router)
             /\ UNCHANGED <<recs, requests, inbox, served>>
        ELSE LET c == CHOOSE x \in target : TRUE
             IN /\ SetRouter(IF Primary(res) THEN res.router
                             ELSE forceAssign(res.router, u, recs[c].workerId).router)
                /\ requests' = MapSet(requests, q, NewRequest(u, c, ~Primary(res)))
                /\ recs' = [recs EXCEPT ![c].pendingRequests = @ \cup {q}]
                /\ inbox' = IF recs[c].process
                            THEN SendTo(inbox, c, [type |-> "Request", requestId |-> q])
                            ELSE inbox
                /\ served' = MapSet(served, u, recs[c].workerId)
  /\ UNCHANGED <<ghostVars, sandboxVars, waitVars, config, started, stopping, workers, workerOrder, procs, outbox,
                 spawning, restartTimers, startWait, stopWait, exits>>

\* a request timer that rejects the promise but keeps the correlation
RequestTimerKeeps(q) ==
  /\ q \in DOMAIN requests
  /\ requests[q].timer
  /\ requests[q].left = 0
  /\ requests' = [requests EXCEPT ![q] = TimerOff(Settle(@, "RequestTimeout"))]
  /\ UNCHANGED <<ghostVars, sandboxVars, waitVars, config, routerVars, started, stopping, workers, workerOrder, recs,
                 procs, inbox, outbox, spawning, restartTimers, startWait, stopWait,
                 exits, inputs, served>>

\* the request timer fires: the entry is deleted from the record the timer
\* closed over and the promise is rejected
RequestTimer(q) ==
  /\ q \in DOMAIN requests
  /\ requests[q].timer
  /\ requests[q].left = 0
  /\ requests' = [requests EXCEPT ![q] = TimerOff(Settle(@, "RequestTimeout"))]
  /\ recs' = Reclaim([recs EXCEPT ![requests[q].rec].pendingRequests = @ \ {q}],
                     workers, stopWait.waiting)
  /\ UNCHANGED <<ghostVars, sandboxVars, waitVars, config, routerVars, started, stopping, workers, workerOrder, procs, inbox,
                 outbox, spawning, restartTimers, startWait, stopWait, exits,
                 inputs, served>>

\* ----------------------------------------------------------------------
\* WorkerPool.handleWorkerMessage, handleResponse
\* ----------------------------------------------------------------------
\* handleResponse that settles the promise but keeps the correlation and
\* its timer
HandleResponseKeeps(r, msg) ==
  IF msg.requestId \in recs[r].pendingRequests
  THEN /\ requests' = [requests EXCEPT ![msg.requestId] =
                         Settle(@, IF msg.success THEN "resolved" ELSE msg.error)]
       /\ UNCHANGED recs
  ELSE UNCHANGED <<requests, recs>>

\* handleResponse on record r
HandleResponse(r, msg) ==
  IF msg.requestId \in recs[r].pendingRequests
  THEN /\ requests' = [requests EXCEPT ![msg.requestId] =
                         TimerOff(Settle(@, IF msg.success THEN "resolved" ELSE msg.error))]
       /\ recs' = Reclaim([recs EXCEPT ![r].pendingRequests = @ \ {msg.requestId}],
                          workers, stopWait.waiting)
  ELSE UNCHANGED <<requests, recs>>

\* a message of child c reaches the supervisor; it is handled on the record
\* the workers map holds under the child's worker id
Deliver(c) ==
  /\ procs[c].status \in {"running", "exited"}
  /\ outbox[c] # <<>>
  /\ outbox' = [outbox EXCEPT ![c] = Tail(@)]
  /\ LET msg == Head(outbox[c])
         w == procs[c].workerId
     IN IF w \notin DOMAIN workers
        THEN UNCHANGED <<requests, recs>>
        ELSE LET r == workers[w]
             IN CASE msg.type = "Ready" ->
                       /\ recs' = [recs EXCEPT ![r].state = "ready"]
                       /\ UNCHANGED requests
                  [] msg.type = "Response" -> HandleResponse(r, msg)
                  [] msg.type = "Error" ->
                       /\ recs' = IF msg.fatal
                                  THEN [recs EXCEPT ![r].state = "crashed"]
                                  ELSE recs
                       /\ UNCHANGED requests
                  [] msg.type = "Heartbeat" ->
                       /\ recs' = [recs EXCEPT ![r].health = msg.state]
                       /\ UNCHANGED requests
                  [] msg.type = "Event" ->
                       /\ recs' = IF msg.event = "stopped"
                                  THEN [recs EXCEPT ![r].state = "stopped"]
                                  ELSE recs
                       /\ UNCHANGED requests
  /\ UNCHANGED <<ghostVars, sandboxVars, waitVars, config, routerVars, started, stopping, workers, workerOrder, procs, inbox,
                 spawning, restartTimers, startWait, stopWait, exits, inputs, served>>

\* ----------------------------------------------------------------------
\* WorkerPool.handleWorkerExit
\* ----------------------------------------------------------------------
\* restartTimes.filter((t) => now - t < restartWindow); a time t is kept as
\* its age now - t
InWindow(times) == SelectSeq(times, LAMBDA age : age < RestartWindow)

\* the restart test counting the exit being handled as a restart
TooManyRestartsEarly(times) == Len(times) + 1 >= MaxRestartAttempts

\* the restart test of handleWorkerExit
TooManyRestarts(times) == Len(times) >= MaxRestartAttempts

\* the record after the exit has been handled on it
ExitedRecord(rec) ==
  LET cleared == [rec EXCEPT !.pendingRequests = {},
                             !.process = FALSE,
                             !.state = "stopped"]
      kept == InWindow(rec.restartTimes)
  IN IF stopping THEN cleared
     ELSE IF TooManyRestarts(kept)
          THEN [cleared EXCEPT !.restartTimes = kept, !.state = "crashed"]
          ELSE [cleared EXCEPT !.restartTimes = Append(kept, 0),
                               !.restartCount = @ + 1]

\* whether handleWorkerExit arms the restart timer
Restarts(rec) == ~stopping /\ ~TooManyRestarts(InWindow(rec.restartTimes))

\* an exit that rejects every pending promise of the pool
RejectEvery(reqs, rec) ==
  [q \in DOMAIN reqs |->
     IF reqs[q].outcome = "pending"
     THEN TimerOff(Settle(reqs[q], "WorkerExited"))
     ELSE reqs[q]]

\* every pending promise of the record is rejected and its timer cleared
RejectPending(reqs, rec) ==
  [q \in DOMAIN reqs |->
     IF q \in rec.pendingRequests
     THEN TimerOff(Settle(reqs[q], "WorkerExited"))
     ELSE reqs[q]]

\* a handleWorkerExit that takes the slot out of the router
ExitRoutingRemoves(c) == SetRouter(removeWorker(ThisRouter, procs[c].workerId))

\* handleWorkerExit makes no call on the router
ExitRouting(c) == UNCHANGED routerVars

\* the exit event of child c: handleWorkerExit on the slot's record, then the
\* once("exit") listener of a waiting stop()
HandleExit(c) ==
  /\ procs[c].status = "exited"
  /\ procs' = [procs EXCEPT ![c] = [status |-> "reaped", workerId |-> procs[c].workerId]]
  /\ inbox' = [inbox EXCEPT ![c] = <<>>]
  /\ outbox' = [outbox EXCEPT ![c] = <<>>]
  /\ LET w == procs[c].workerId
         known == w \in DOMAIN workers
         r == IF known THEN workers[w] ELSE c
         rs == IF known THEN [recs EXCEPT ![r] = ExitedRecord(@)] ELSE recs
         left == stopWait.waiting \ {c}
     IN /\ requests' = IF known THEN RejectPending(requests, recs[r]) ELSE requests
        /\ exits' = IF known /\ ~stopping THEN [exits EXCEPT ![w] = Append(@, 0)] ELSE exits
        /\ restartTimers' = IF known /\ Restarts(recs[r])
                            THEN restartTimers \cup
                                   {[workerId |-> w, left |-> RestartDelay, child |-> c]}
                            ELSE restartTimers
        /\ IF c \in stopWait.waiting /\ left = {}
           THEN StopFinish(rs)
           ELSE /\ recs' = Reclaim(rs, workers, left)
                /\ stopWait' = [stopWait EXCEPT !.waiting = left]
                /\ UNCHANGED <<workers, workerOrder, started, stopping>>
  /\ ExitRouting(c)
  /\ UNCHANGED <<ghostVars, sandboxVars, waitVars, config, spawning, startWait, inputs, served>>

\* a restart timer that fires without calling spawnWorker
RestartTimerIdle(t) ==
  /\ t \in restartTimers
  /\ t.left = 0
  /\ restartTimers' = restartTimers \ {t}
  /\ UNCHANGED <<ghostVars, sandboxVars, waitVars, config, routerVars, started, stopping, workers, workerOrder, recs, procs,
                 inbox, outbox, requests, spawning, startWait, stopWait, exits, inputs,
                 served>>

\* the restart timer fires: spawnWorker is called unless the pool is stopping
RestartTimer(t) ==
  /\ t \in restartTimers
  /\ t.left = 0
  /\ restartTimers' = restartTimers \ {t}
  /\ spawning' = IF stopping THEN spawning
                 ELSE spawning \cup {[workerId |-> t.workerId, origin |-> t.child]}
  /\ UNCHANGED <<ghostVars, sandboxVars, waitVars, config, routerVars, started, stopping, workers, workerOrder, recs, procs,
                 inbox, outbox, requests, startWait, stopWait, exits, inputs, served>>

\* ----------------------------------------------------------------------
\* WorkerPool.stop
\* ----------------------------------------------------------------------
\* the records stop() sends Shutdown to and waits for
ToShutDown ==
  {workers[w] : w \in {x \in DOMAIN workers :
                         recs[workers[x]].process /\ recs[workers[x]].state # "stopped"}}

RECURSIVE SendAll(_, _, _)
SendAll(ib, cs, msg) ==
  IF cs = {} THEN ib
  ELSE LET c == CHOOSE x \in cs : TRUE
       IN SendAll(SendTo(ib, c, msg), cs \ {c}, msg)

Stop ==
  /\ started
  /\ ~stopping
  /\ Input
  /\ inbox' = SendAll(inbox, ToShutDown, [type |-> "Shutdown", gracePeriod |-> GracePeriod])
  /\ IF ToShutDown = {}
     THEN StopFinish(recs)
     ELSE /\ stopping' = TRUE
          /\ stopWait' = [waiting |-> ToShutDown, left |-> GracePeriod + KillDelay]
          /\ UNCHANGED <<started, workers, workerOrder, recs>>
  /\ requests' = [q \in DOMAIN requests |->
                    [requests[q] EXCEPT !.draining = requests[q].outcome = "pending"]]
  /\ UNCHANGED <<ghostVars, sandboxVars, waitVars, config, routerVars, procs, outbox, spawning, restartTimers,
                 startWait, exits, served>>

\* the kill timers of stop() fire: SIGKILL to every child still held by its
\* record, every wait resolves and stop() finishes
StopKill ==
  /\ stopWait.waiting # {}
  /\ stopWait.left = 0
  /\ procs' = [c \in Children |->
                 IF c \in stopWait.waiting /\ recs[c].process /\ procs[c].status = "running"
                 THEN [procs[c] EXCEPT !.status = "exited"]
                 ELSE procs[c]]
  /\ StopFinish(recs)
  /\ UNCHANGED <<ghostVars, sandboxVars, waitVars, config, routerVars, inbox, outbox, requests, spawning, restartTimers,
                 startWait, exits, inputs, served>>

\* ----------------------------------------------------------------------
\* Time
\* ----------------------------------------------------------------------
\* the supervisor or a child has something to do now: a timer is due, a
\* message or an exit event is queued, a spawnWorker or the poll of start()
\* is about to resume; one second does not pass before it is done
Busy ==
  \/ \E q \in DOMAIN requests : requests[q].timer /\ requests[q].left = 0
  \/ \E t \in restartTimers : t.left = 0
  \/ stopWait.waiting # {} /\ stopWait.left = 0
  \/ \E c \in Children : procs[c].status = "exited" \/ outbox[c] # <<>>
  \/ \E c \in Children : /\ procs[c].status = "running"
                           /\ (inbox[c] # <<>> \/ procs[c].shutdown = "exiting")
  \/ \E sp \in spawning : \E c \in ChildrenOf(sp.workerId) : procs[c].status = "none"
  \/ \E w \in PoolWorkerIds : Polling(w) /\ recs[workers[w]].state \in {"ready", "crashed"}
  \/ \E w \in PoolWorkerIds : Polling(w) /\ startWait.left = 0

\* the ages one second later; an age past the restart window stays there
Older(times) ==
  IF times = <<>> THEN <<>>
  ELSE [i \in 1..Len(times) |->
          IF times[i] > RestartWindow THEN times[i] ELSE times[i] + 1]

\* one second passes: every armed timer has one second less to run and
\* every recorded time is one second older
Tick ==
  /\ ~Busy
  /\ requests' = [q \in DOMAIN requests |->
                    IF requests[q].timer THEN [requests[q] EXCEPT !.left = @ - 1]
                    ELSE requests[q]]
  /\ restartTimers' = {[t EXCEPT !.left = @ - 1] : t \in restartTimers}
  /\ stopWait' = IF stopWait.waiting # {} THEN [stopWait EXCEPT !.left = @ - 1]
                 ELSE stopWait
  /\ procs' = [c \in Children |->
                 IF procs[c].status = "running" /\ procs[c].left > 0
                 THEN [procs[c] EXCEPT !.left = @ - 1]
                 ELSE procs[c]]
  /\ recs' = [c \in Children |->
                IF recs[c].live THEN [recs[c] EXCEPT !.restartTimes = Older(@)]
                ELSE recs[c]]
  /\ exits' = [w \in PoolWorkerIds |-> Older(exits[w])]
  /\ startWait' = IF startWait.active /\ startWait.left > 0
                  THEN [startWait EXCEPT !.left = @ - 1]
                  ELSE startWait
  /\ UNCHANGED <<ghostVars, sandboxVars, waitVars, config, routerVars, started, stopping, workers, workerOrder,
                 inbox, outbox, spawning, inputs, served>>

\* ----------------------------------------------------------------------
\* The child process (worker-process.ts)
\* ----------------------------------------------------------------------
Running(c) == procs[c].status = "running"

Receives(c, type) == Running(c) /\ inbox[c] # <<>> /\ Head(inbox[c]).type = type

ChildFrame == UNCHANGED <<ghostVars, sandboxVars, waitVars, config, routerVars, started, stopping, workers,
                          workerOrder, recs, requests, spawning, restartTimers,
                          startWait, stopWait, exits, served>>

\* handleInit up to its await of sandbox.initialize()
ChildInitBegin(c) ==
  /\ Receives(c, "Init")
  /\ inbox' = [inbox EXCEPT ![c] = Tail(@)]
  /\ procs' = [procs EXCEPT ![c].config = TRUE, ![c].init = "running"]
  /\ UNCHANGED outbox
  /\ UNCHANGED inputs
  /\ ChildFrame

\* handleInit after the await: state Ready, the Ready message
ChildInitFinish(c) ==
  /\ Running(c)
  /\ procs[c].init = "running"
  /\ procs' = [procs EXCEPT ![c].init = "done", ![c].state = "ready"]
  /\ outbox' = [outbox EXCEPT ![c] = Append(@, [type |-> "Ready"])]
  /\ UNCHANGED inbox
  /\ UNCHANGED inputs
  /\ ChildFrame

\* sendHeartbeat, on the interval handleInit starts: the child's own state
ChildHeartbeat(c) ==
  /\ Running(c)
  /\ procs[c].init = "done"
  /\ outbox' = [outbox EXCEPT ![c] =
                  Append(@, [type |-> "Heartbeat", state |-> procs[c].state])]
  /\ UNCHANGED <<inbox, procs>>
  /\ Input
  /\ ChildFrame

\* whether process.memoryUsage().heapUsed is above maxMemory when checkLimits
\* reads it: either, under a low limit; a heap above the default 512 MB is
\* left out
HeapExceeds == IF config.maxMemory = "low" THEN BOOLEAN ELSE {FALSE}

\* the limit event checkLimits sends for a reason
LimitEvent(reason) == [type |-> "Event", event |-> "error", reason |-> reason]

\* checkLimits in the child state p: the messages it sends
checkLimits(p, heapExceeds) ==
  IF ~p.config THEN <<>>
  ELSE (IF heapExceeds THEN <<LimitEvent("memory_limit")>> ELSE <<>>)
         \o (IF p.requestsProcessed >= config.maxRequests
             THEN <<LimitEvent("request_limit")>> ELSE <<>>)

\* handleRequest up to the await inside processRequest
ChildRequest(c) ==
  /\ Receives(c, "Request")
  /\ inbox' = [inbox EXCEPT ![c] = Tail(@)]
  /\ procs' = [procs EXCEPT ![c].activeRequests = @ \cup {Head(inbox[c]).requestId},
                            ![c].state = "busy"]
  /\ UNCHANGED outbox
  /\ UNCHANGED inputs
  /\ ChildFrame

\* the state after the finally block of handleRequest
AfterRequest(p, q) ==
  IF p.activeRequests \ {q} = {} THEN "ready" ELSE p.state

\* the handler of request q returns (ok) or throws: counters, the finally
\* block, then the Response, then checkLimits
ChildFinish(c, q, ok) ==
  /\ Running(c)
  /\ q \in procs[c].activeRequests
  /\ procs' = [procs EXCEPT
                 ![c].requestsProcessed = IF ok THEN @ + 1 ELSE @,
                 ![c].errorCount = IF ok THEN @ ELSE @ + 1,
                 ![c].activeRequests = @ \ {q},
                 ![c].answered = @ \cup {q},
                 ![c].state = AfterRequest(procs[c], q)]
  /\ \E heapExceeds \in HeapExceeds :
       outbox' = [outbox EXCEPT ![c] =
                    Append(@, [type |-> "Response", requestId |-> q, success |-> ok,
                               error |-> "HandlerError", from |-> "handler"])
                      \o checkLimits(procs'[c], heapExceeds)]
  /\ UNCHANGED inbox
  /\ UNCHANGED inputs
  /\ ChildFrame

\* handleShutdown up to its polling loop
ChildShutdown(c) ==
  /\ Receives(c, "Shutdown")
  /\ inbox' = [inbox EXCEPT ![c] = Tail(@)]
  /\ procs' = [procs EXCEPT ![c].shutdownRequested = TRUE,
                            ![c].state = "stopping",
                            ![c].shutdown = "waiting",
                            ![c].left = Head(inbox[c]).gracePeriod]
  /\ UNCHANGED outbox
  /\ UNCHANGED inputs
  /\ ChildFrame

RECURSIVE ShutdownResponses(_)
\* one synthesized failure per request still active, in Map order
ShutdownResponses(active) ==
  IF active = {} THEN <<>>
  ELSE LET q == CHOOSE x \in active : \A y \in active : x <= y
       IN <<[type |-> "Response", requestId |-> q, success |-> FALSE,
             error |-> "WORKER_SHUTDOWN", from |-> "shutdown"]>>
          \o ShutdownResponses(active \ {q})

\* handleShutdown after the loop: the synthesized failures, state Stopped, the
\* stopped event; process.exit is 100 ms away
ChildShutdownDone(c) ==
  /\ Running(c)
  /\ procs[c].shutdown = "waiting"
  /\ procs[c].activeRequests = {} \/ procs[c].left = 0
  /\ procs' = [procs EXCEPT ![c].state = "stopped", ![c].shutdown = "exiting",
                            ![c].answered = @ \cup procs[c].activeRequests]
  /\ outbox' = [outbox EXCEPT ![c] =
                  @ \o ShutdownResponses(procs[c].activeRequests)
                    \o <<[type |-> "Event", event |-> "stopped"]>>]
  /\ UNCHANGED inbox
  /\ UNCHANGED inputs
  /\ ChildFrame

\* process.exit(0) at the end of handleShutdown
ChildExit(c) ==
  /\ Running(c)
  /\ procs[c].shutdown = "exiting"
  /\ procs' = [procs EXCEPT ![c].status = "exited"]
  /\ UNCHANGED <<inbox, outbox>>
  /\ UNCHANGED inputs
  /\ ChildFrame

\* uncaughtException: Error{fatal: true}, then process.exit(1)
ChildUncaught(c) ==
  /\ Running(c)
  /\ procs' = [procs EXCEPT ![c].status = "exited", ![c].errorCount = @ + 1]
  /\ outbox' = [outbox EXCEPT ![c] = Append(@, [type |-> "Error", fatal |-> TRUE])]
  /\ UNCHANGED inbox
  /\ Input
  /\ ChildFrame

\* the process is killed from outside (SIGKILL): no message
ChildKilled(c) ==
  /\ Running(c)
  /\ procs' = [procs EXCEPT ![c].status = "exited"]
  /\ UNCHANGED <<inbox, outbox>>
  /\ Input
  /\ ChildFrame

\* ----------------------------------------------------------------------
\* The pool with its children
\* ----------------------------------------------------------------------
Next ==
  \/ Start
  \/ \E sp \in spawning : SpawnCreate(sp)
  \/ \E w \in PoolWorkerIds : StartSeesReady(w)
  \/ \E w \in PoolWorkerIds : StartSeesCrashed(w)
  \/ StartTimeout
  \/ \E u \in Users : SendRequest(u)
  \/ \E q \in RequestIds : RequestTimer(q)
  \/ \E c \in Children : Deliver(c)
  \/ \E c \in Children : HandleExit(c)
  \/ \E t \in restartTimers : RestartTimer(t)
  \/ Stop
  \/ StopKill
  \/ Tick
  \/ \E c \in Children : ChildInitBegin(c)
  \/ \E c \in Children : ChildInitFinish(c)
  \/ \E c \in Children : ChildRequest(c)
  \/ \E c \in Children, q \in RequestIds, ok \in BOOLEAN : ChildFinish(c, q, ok)
  \/ \E c \in Children : ChildShutdown(c)
  \/ \E c \in Children : ChildShutdownDone(c)
  \/ \E c \in Children : ChildExit(c)
  \/ \E c \in Children : ChildUncaught(c)
  \/ \E c \in Children : ChildKilled(c)

\* ----------------------------------------------------------------------
\* The stand-alone router: every public method, called in any order
\* ----------------------------------------------------------------------
RECURSIVE SetToSeq(_)
\* Array.from(set): the elements of S, each once
SetToSeq(S) ==
  IF S = {} THEN <<>>
  ELSE LET x == CHOOSE y \in S : TRUE IN <<x>> \o SetToSeq(S \ {x})

\* Array.from(map.entries())
MapEntries(m) == SetToSeq({<<k, m[k]>> : k \in DOMAIN m})

\* exportState
exportState(R) ==
  [workers |-> SetToSeq(R.workers),
   assignments |-> MapEntries(R.routingCache),
   virtualNodes |-> VirtualNodes]

\* the partial maps from K to V
PartialMaps(K, V) == UNION {[D -> V] : D \in SUBSET K}

\* serialized states handed to fromState: any worker list, any assignments,
\* those naming a worker that is not in the list included
ImportedStates ==
  {[workers |-> SetToSeq(W), assignments |-> MapEntries(m),
    virtualNodes |-> VirtualNodes] :
     W \in SUBSET RouterWorkerIds, m \in PartialMaps(Users, RouterWorkerIds)}

InitRouter ==
  /\ ring = <<>>
  /\ routerWorkers = {}
  /\ routingCache = EmptyMap
  /\ last = NoCall
  /\ first = EmptyMap

\* ----------------------------------------------------------------------
\* The environment of a forked child (worker-pool.ts, worker-sandbox.ts)
\* ----------------------------------------------------------------------
LowerCase == "abcdefghijklmnopqrstuvwxyz"
UpperCase == "ABCDEFGHIJKLMNOPQRSTUVWXYZ"
Digits == "0123456789"

\* the character c occurs in the string s
CharIn(c, s) == \E i \in 1..Len(s) : SubSeq(s, i, i) = c

\* the upper-case form of one character: what the i flag of a RegExp
\* compares
UpperChar(c) ==
  IF CharIn(c, LowerCase)
  THEN LET i == CHOOSE j \in 1..Len(LowerCase) : SubSeq(LowerCase, j, j) = c
       IN SubSeq(UpperCase, i, i)
  ELSE c

RECURSIVE toUpperCase(_)
toUpperCase(s) ==
  IF s = "" THEN ""
  ELSE UpperChar(SubSeq(s, 1, 1)) \o toUpperCase(SubSeq(s, 2, Len(s)))

\* s ends with suffix
EndsWith(s, suffix) ==
  Len(s) >= Len(suffix) /\ SubSeq(s, Len(s) - Len(suffix) + 1, Len(s)) = suffix

\* SENSITIVE_ENV_PATTERNS: the patterns anchored at both ends
SensitiveNames ==
  {"ANTHROPIC_API_KEY", "OPENAI_API_KEY", "CLAUDE_API_KEY", "DISCORD_TOKEN",
   "DISCORD_BOT_TOKEN", "TELEGRAM_BOT_TOKEN", "SLACK_BOT_TOKEN",
   "SLACK_SIGNING_SECRET", "CLAWDBOT_OAUTH_DIR", "GITHUB_TOKEN", "GH_TOKEN",
   "NPM_TOKEN"}

\* SENSITIVE_ENV_PATTERNS: the patterns anchored at the end only
SensitiveSuffixes == {"_TOKEN", "_SECRET", "_API_KEY", "_PASSWORD", "_PRIVATE_KEY"}

\* a test that compares the name as it is written
isSensitiveCased(key) ==
  \/ key \in SensitiveNames
  \/ \E suffix \in SensitiveSuffixes : EndsWith(key, suffix)

\* SENSITIVE_ENV_PATTERNS.some((pattern) => pattern.test(key))
isSensitive(key) ==
  \/ toUpperCase(key) \in SensitiveNames
  \/ \E suffix \in SensitiveSuffixes : EndsWith(toUpperCase(key), suffix)

\* values of variables are held as one-segment sequences, like paths; this
\* is a variable that Object.entries reports as undefined
Undefined == <<>>

\* a file that does not exist
NoFile == [exists |-> FALSE]

filterSensitiveEnv(env) ==
  [key \in {k \in DOMAIN env : env[k] # Undefined /\ ~isSensitive(k)} |-> env[key]]

\* a path is the sequence of its segments
BaseDir == <<"sandboxes">>

\* the workers that get a sandbox
SandboxWorkerIds == {"worker-0", "worker-1"}

\* SandboxPaths, as the constructor of WorkerSandbox fills it
SandboxPathsOf(workerId) ==
  LET workerRoot == BaseDir \o <<workerId>>
  IN [root |-> workerRoot,
      sessions |-> workerRoot \o <<"sessions">>,
      temp |-> workerRoot \o <<"temp">>,
      cache |-> workerRoot \o <<"cache">>,
      state |-> workerRoot \o <<"state">>,
      logs |-> workerRoot \o <<"logs">>,
      credentials |-> workerRoot \o <<"credentials">>,
      config |-> workerRoot \o <<"config">>,
      keys |-> workerRoot \o <<"keys">>]

\* WorkerSandbox.getEnvironment
getEnvironment(workerId) ==
  LET paths == SandboxPathsOf(workerId)
  IN [MOLTBOT_WORKER_ID |-> <<workerId>>,
      MOLTBOT_SANDBOX_ROOT |-> paths.root,
      MOLTBOT_SESSIONS_DIR |-> paths.sessions,
      MOLTBOT_TEMP_DIR |-> paths.temp,
      MOLTBOT_CACHE_DIR |-> paths.cache,
      MOLTBOT_STATE_DIR |-> paths.state,
      MOLTBOT_LOGS_DIR |-> paths.logs,
      MOLTBOT_CREDENTIALS_DIR |-> paths.credentials,
      MOLTBOT_CONFIG_DIR |-> paths.config,
      MOLTBOT_KEYS_DIR |-> paths.keys,
      CLAWDBOT_OAUTH_DIR |-> paths.credentials,
      XDG_CONFIG_HOME |-> paths.config,
      XDG_DATA_HOME |-> paths.state,
      XDG_CACHE_HOME |-> paths.cache,
      TMPDIR |-> paths.temp]

\* { ...a, ...b }
Spread(a, b) ==
  [k \in (DOMAIN a) \cup (DOMAIN b) |-> IF k \in DOMAIN b THEN b[k] ELSE a[k]]

\* the env option spawnWorker hands to fork
ForkEnv(workerId) == Spread(filterSensitiveEnv(processEnv), getEnvironment(workerId))

\* the variable names a parent environment is made of
EnvNames ==
  {"PATH", "TMPDIR", "TOKEN", "MY_API_KEY_ID", "ANTHROPIC_API_KEY",
   "anthropic_api_key", "FOO_TOKEN", "MY_PASSWORD", "Db_Private_Key",
   "CLAWDBOT_OAUTH_DIR", "MOLTBOT_WORKER_ID"}

\* parent environments: any of the names, each with the parent's value or
\* undefined
ParentEnvs ==
  UNION {[D -> {<<"parent">>}] : D \in SUBSET EnvNames}
    \cup {[k \in {"PATH", "HOME"} |-> IF k = "HOME" THEN Undefined ELSE <<"parent">>]}

NoSandboxCall == [op |-> "none"]

\* the fork of spawnWorker for the worker's sandbox
Fork(workerId) ==
  /\ childEnv' = ForkEnv(workerId)
  /\ sandboxCall' = [op |-> "fork", workerId |-> workerId]
  /\ UNCHANGED <<processEnv, files, initialized, metadataFile, clock>>
  /\ UNCHANGED <<routerVars, ghostVars, poolVars, waitVars>>

\* ----------------------------------------------------------------------
\* The path helpers of WorkerSandbox
\* ----------------------------------------------------------------------
\* [a-zA-Z0-9_-], the characters getSessionPath keeps
SessionChars == LowerCase \o UpperCase \o Digits \o "_-"

\* a character class that also lets the separator through
NameCharsWithSlash == SessionChars \o "./"

\* [a-zA-Z0-9._-], the characters the other helpers keep
NameChars == SessionChars \o "."

RECURSIVE Sanitize(_, _)
\* s.replace(/[^...]/g, '_') for the character class allowed
Sanitize(s, allowed) ==
  IF s = "" THEN ""
  ELSE (IF CharIn(SubSeq(s, 1, 1), allowed) THEN SubSeq(s, 1, 1) ELSE "_")
         \o Sanitize(SubSeq(s, 2, Len(s)), allowed)

RECURSIVE Segments(_, _)
\* the segments of s between separators, cur being the one in progress
Segments(s, cur) ==
  IF s = "" THEN <<cur>>
  ELSE IF SubSeq(s, 1, 1) = "/"
       THEN <<cur>> \o Segments(SubSeq(s, 2, Len(s)), "")
       ELSE Segments(SubSeq(s, 2, Len(s)), cur \o SubSeq(s, 1, 1))

\* path.normalize, one segment at a time, on an absolute path
PathStep(path, seg) ==
  IF seg \in {"", "."} THEN path
  ELSE IF seg = ".."
       THEN IF path = <<>> THEN path ELSE SubSeq(path, 1, Len(path) - 1)
       ELSE path \o <<seg>>

RECURSIVE Resolve(_, _)
Resolve(path, segs) ==
  IF segs = <<>> THEN path ELSE Resolve(PathStep(path, Head(segs)), Tail(segs))

\* path.join(dir, name)
join(dir, name) == Resolve(dir, Segments(name, ""))

getSessionPath(w, sessionId) ==
  join(SandboxPathsOf(w).sessions, Sanitize(sessionId, SessionChars) \o ".json")
getTempPath(w, filename) == join(SandboxPathsOf(w).temp, Sanitize(filename, NameChars))
getCachePath(w, key) == join(SandboxPathsOf(w).cache, Sanitize(key, NameChars))
getStatePath(w, name) ==
  join(SandboxPathsOf(w).state, Sanitize(name, NameChars) \o ".json")
getLogPath(w, name) == join(SandboxPathsOf(w).logs, Sanitize(name, NameChars) \o ".log")
getCredentialPath(w, name) ==
  join(SandboxPathsOf(w).credentials, Sanitize(name, NameChars))
getConfigPath(w, name) == join(SandboxPathsOf(w).config, Sanitize(name, NameChars))

PathHelpers ==
  {"getSessionPath", "getTempPath", "getCachePath", "getStatePath", "getLogPath",
   "getCredentialPath", "getConfigPath"}

\* the path helper named helper, applied
PathOf(helper, w, input) ==
  CASE helper = "getSessionPath" -> getSessionPath(w, input)
    [] helper = "getTempPath" -> getTempPath(w, input)
    [] helper = "getCachePath" -> getCachePath(w, input)
    [] helper = "getStatePath" -> getStatePath(w, input)
    [] helper = "getLogPath" -> getLogPath(w, input)
    [] helper = "getCredentialPath" -> getCredentialPath(w, input)
    [] helper = "getConfigPath" -> getConfigPath(w, input)

\* arguments of the path helpers: plain names, and strings made of dots,
\* separators and characters outside the classes
PathInputs ==
  {"session-123", "upload.tmp", "", ".", "..", "...", "/", "../", "../..",
   "../../../etc/passwd", "/etc/passwd", "a/../../b", "..\\..", "x y", "~", ".. "}

PathCall(helper, w, input) ==
  /\ sandboxCall' = [op |-> helper, workerId |-> w, input |-> input,
                     result |-> PathOf(helper, w, input)]
  /\ UNCHANGED <<processEnv, childEnv, files, initialized, metadataFile, clock>>
  /\ UNCHANGED <<routerVars, ghostVars, poolVars, waitVars>>

NextPaths ==
  \E helper \in PathHelpers, w \in SandboxWorkerIds, input \in PathInputs :
    PathCall(helper, w, input)

\* ----------------------------------------------------------------------
\* The instance keys of a sandbox
\* ----------------------------------------------------------------------
\* randomBytes(32)
KeyLength == 32
\* the bytes of the fingerprint
FingerprintLength == 8

HexDigits == "0123456789abcdef"

\* the two hex digits of one byte
ByteToHex(b) ==
  SubSeq(HexDigits, (b \div 16) + 1, (b \div 16) + 1)
    \o SubSeq(HexDigits, (b % 16) + 1, (b % 16) + 1)

RECURSIVE toHex(_)
\* buffer.toString('hex')
toHex(bytes) ==
  IF bytes = <<>> THEN "" ELSE ByteToHex(Head(bytes)) \o toHex(Tail(bytes))

\* the value of a hex digit, -1 for another character
HexValue(c) ==
  IF CharIn(c, HexDigits)
  THEN (CHOOSE i \in 1..Len(HexDigits) : SubSeq(HexDigits, i, i) = c) - 1
  ELSE IF CharIn(c, "ABCDEF")
       THEN 9 + (CHOOSE i \in 1..6 : SubSeq("ABCDEF", i, i) = c)
       ELSE -1

RECURSIVE fromHex(_)
\* Buffer.from(s, 'hex'): whole pairs of hex digits, up to the first
\* character that is none
fromHex(s) ==
  IF Len(s) < 2 \/ HexValue(SubSeq(s, 1, 1)) < 0 \/ HexValue(SubSeq(s, 2, 2)) < 0
  THEN <<>>
  ELSE <<16 * HexValue(SubSeq(s, 1, 1)) + HexValue(SubSeq(s, 2, 2))>>
         \o fromHex(SubSeq(s, 3, Len(s)))

WhiteSpace == " \n"

RECURSIVE trimStart(_)
trimStart(s) ==
  IF s # "" /\ CharIn(SubSeq(s, 1, 1), WhiteSpace)
  THEN trimStart(SubSeq(s, 2, Len(s))) ELSE s

RECURSIVE trimEnd(_)
trimEnd(s) ==
  IF s # "" /\ CharIn(SubSeq(s, Len(s), Len(s)), WhiteSpace)
  THEN trimEnd(SubSeq(s, 1, Len(s) - 1)) ELSE s

\* s.trim()
trim(s) == trimEnd(trimStart(s))

\* privateKey.subarray(0, 8).toString('hex')
Fingerprint(privateKey) ==
  toHex(SubSeq(privateKey, 1,
               IF Len(privateKey) < FingerprintLength THEN Len(privateKey)
               ELSE FingerprintLength))

\* a file with this content
File(content) == [exists |-> TRUE, content |-> content]

\* keys randomBytes may return: two that share their fingerprint, one that
\* does not
KeyA == [i \in 1..KeyLength |-> 17]
KeyB == [i \in 1..KeyLength |-> IF i <= FingerprintLength THEN 17 ELSE 171]
KeyC == [i \in 1..KeyLength |-> IF i % 2 = 0 THEN 254 ELSE 3]
RandomKeys == {KeyA, KeyB, KeyC}

\* `${workerId}-${Date.now()}-${randomBytes(4).toString('hex')}`
InstanceIds == {"worker-0-1700000000000-0a0b0c0d", "worker-0-1700000000001-ffffffff"}

\* what the keys directory may hold when a sandbox object is created: each
\* file missing or written by an earlier run, as written or with a newline
\* an editor added
KeyFiles ==
  {NoFile} \cup {File(toHex(k)) : k \in RandomKeys} \cup {File(toHex(KeyA) \o "\n")}
IdFiles ==
  {NoFile} \cup {File(id) : id \in InstanceIds}
    \cup {File("worker-0-1700000000000-0a0b0c0d\n")}

\* generateInstanceKeys: the files after it and the keys it returns
generateInstanceKeys(privateKey, instanceId) ==
  [files |-> [key |-> File(toHex(privateKey)), id |-> File(instanceId)],
   keys |-> [privateKey |-> privateKey,
             instanceId |-> instanceId,
             fingerprint |-> Fingerprint(privateKey)],
   generated |-> TRUE]

\* getOrCreateInstanceKeys on the files f; privateKey and instanceId are
\* what the random source gives when it is asked
getOrCreateInstanceKeys(f, privateKey, instanceId) ==
  IF f.key.exists /\ f.id.exists
  THEN [files |-> f,
        keys |-> [privateKey |-> fromHex(trim(f.key.content)),
                  instanceId |-> trim(f.id.content),
                  fingerprint |-> Fingerprint(fromHex(trim(f.key.content)))],
        generated |-> FALSE]
  ELSE generateInstanceKeys(privateKey, instanceId)

\* ----------------------------------------------------------------------
\* Sandbox metadata
\* ----------------------------------------------------------------------
SANDBOX_VERSION == 1

\* the latest value of Date.now() in the model
MaxClock == 3

\* JSON.stringify of a value, and a file content that is not JSON
JSONStringify(value) == [json |-> TRUE, value |-> value]
NotJSON == [json |-> FALSE]

\* what getMetadata returns when the file is missing or cannot be parsed
NoMetadata == [isNull |-> TRUE]

\* getMetadata on the file f: JSON.parse of its content, null when readFile
\* or JSON.parse throws
getMetadata(f) ==
  IF f.exists /\ f.content.json
  THEN [isNull |-> FALSE, value |-> f.content.value]
  ELSE NoMetadata

\* the file writeMetadata(metadata) leaves
writeMetadata(metadata) == File(JSONStringify(metadata))

\* initialize() that writes a new record whatever the file holds
InitialMetadataFresh(keys) ==
  [workerId |-> "worker-0",
   createdAt |-> clock,
   lastAccessed |-> clock,
   version |-> SANDBOX_VERSION,
   keyFingerprint |-> keys.fingerprint]

\* the metadata initialize() writes: a new record at Date.now(), createdAt
\* taken over from the existing metadata when there is one
InitialMetadata(keys) ==
  LET metadata == [workerId |-> "worker-0",
                   createdAt |-> clock,
                   lastAccessed |-> clock,
                   version |-> SANDBOX_VERSION,
                   keyFingerprint |-> keys.fingerprint]
      existingMetadata == getMetadata(metadataFile)
  IN IF ~existingMetadata.isNull
     THEN [metadata EXCEPT !.createdAt = existingMetadata.value.createdAt]
     ELSE metadata

\* sandbox.initialize()
Initialize(privateKey, instanceId) ==
  /\ IF initialized
     THEN /\ sandboxCall' = [op |-> "initialize", ran |-> FALSE]
          /\ UNCHANGED <<files, initialized, metadataFile>>
     ELSE LET res == getOrCreateInstanceKeys(files, privateKey, instanceId)
          IN /\ files' = res.files
             /\ metadataFile' = writeMetadata(InitialMetadata(res.keys))
             /\ initialized' = TRUE
             /\ sandboxCall' = [op |-> "initialize", ran |-> TRUE, keys |-> res.keys,
                                generated |-> res.generated,
                                after |-> sandboxCall.op,
                                destroyed |-> IF sandboxCall.op = "destroy"
                                              THEN sandboxCall.metadata
                                              ELSE NoMetadata]
  /\ UNCHANGED <<processEnv, childEnv, clock>>
  /\ UNCHANGED <<routerVars, ghostVars, poolVars, waitVars>>

\* sandbox.getInstanceKeys()
GetInstanceKeys(privateKey, instanceId) ==
  /\ IF ~initialized
     THEN /\ sandboxCall' = [op |-> "getInstanceKeys", ran |-> FALSE]
          /\ UNCHANGED files
     ELSE LET res == getOrCreateInstanceKeys(files, privateKey, instanceId)
          IN /\ files' = res.files
             /\ sandboxCall' = [op |-> "getInstanceKeys", ran |-> TRUE, keys |-> res.keys,
                                generated |-> res.generated]
  /\ UNCHANGED <<processEnv, childEnv, initialized, metadataFile, clock>>
  /\ UNCHANGED <<routerVars, ghostVars, poolVars, waitVars>>

\* sandbox.getOrCreateInstanceKeys()
GetOrCreateInstanceKeys(privateKey, instanceId) ==
  /\ LET res == getOrCreateInstanceKeys(files, privateKey, instanceId)
     IN /\ files' = res.files
        /\ sandboxCall' = [op |-> "getOrCreateInstanceKeys", ran |-> TRUE,
                           keys |-> res.keys, generated |-> res.generated]
  /\ UNCHANGED <<processEnv, childEnv, initialized, metadataFile, clock>>
  /\ UNCHANGED <<routerVars, ghostVars, poolVars, waitVars>>

\* sandbox.destroy()
Destroy ==
  /\ files' = [key |-> NoFile, id |-> NoFile]
  /\ metadataFile' = NoFile
  /\ initialized' = FALSE
  /\ sandboxCall' = [op |-> "destroy", metadata |-> getMetadata(metadataFile)]
  /\ UNCHANGED <<processEnv, childEnv, clock>>
  /\ UNCHANGED <<routerVars, ghostVars, poolVars, waitVars>>

\* the process is started again: a new WorkerSandbox on the same directory
NewSandbox ==
  /\ initialized' = FALSE
  /\ sandboxCall' = [op |-> "new"]
  /\ UNCHANGED <<processEnv, childEnv, files, metadataFile, clock>>
  /\ UNCHANGED <<routerVars, ghostVars, poolVars, waitVars>>

\* sandbox.touch()
Touch ==
  /\ LET metadata == getMetadata(metadataFile)
     IN metadataFile' =
          IF ~metadata.isNull
          THEN writeMetadata([metadata.value EXCEPT !.lastAccessed = clock])
          ELSE metadataFile
  /\ sandboxCall' = [op |-> "touch"]
  /\ UNCHANGED <<processEnv, childEnv, files, initialized, clock>>
  /\ UNCHANGED <<routerVars, ghostVars, poolVars, waitVars>>

\* time passes
AdvanceClock ==
  /\ clock < MaxClock
  /\ clock' = clock + 1
  /\ UNCHANGED <<processEnv, childEnv, files, initialized, sandboxCall, metadataFile>>
  /\ UNCHANGED <<routerVars, ghostVars, poolVars, waitVars>>

NextKeys ==
  \/ \E k \in RandomKeys, id \in InstanceIds : Initialize(k, id)
  \/ \E k \in RandomKeys, id \in InstanceIds : GetInstanceKeys(k, id)
  \/ \E k \in RandomKeys, id \in InstanceIds : GetOrCreateInstanceKeys(k, id)
  \/ Destroy
  \/ NewSandbox

\* no call of waitForMessage yet
NoWait ==
  /\ waiter = [called |-> FALSE]
  /\ emitted = <<>>

\* no sandbox call made yet, an empty parent environment, no key files
IdleSandbox ==
  /\ processEnv = EmptyMap
  /\ childEnv = EmptyMap
  /\ files = [key |-> NoFile, id |-> NoFile]
  /\ initialized = FALSE
  /\ sandboxCall = NoSandboxCall
  /\ metadataFile = NoFile
  /\ clock = 0

\* the state after new WorkerPool(config)
Init == InitRouter /\ InitPool /\ DefaultConfig /\ NoWait /\ IdleSandbox

\* the supervisor about to fork, in any parent environment
InitEnv ==
  /\ InitRouter /\ InitPool /\ DefaultConfig /\ NoWait
  /\ processEnv \in ParentEnvs
  /\ childEnv = EmptyMap
  /\ files = [key |-> NoFile, id |-> NoFile]
  /\ initialized = FALSE
  /\ sandboxCall = NoSandboxCall
  /\ metadataFile = NoFile
  /\ clock = 0

NextEnv == \E w \in SandboxWorkerIds : Fork(w)

SpecEnv == InitEnv /\ [][NextEnv]_vars

SpecPaths == Init /\ [][NextPaths]_vars

\* a new sandbox object on a keys directory in any state
InitKeys ==
  /\ InitRouter /\ InitPool /\ DefaultConfig /\ NoWait
  /\ processEnv = EmptyMap
  /\ childEnv = EmptyMap
  /\ files \in [key : KeyFiles, id : IdFiles]
  /\ initialized = FALSE
  /\ sandboxCall = NoSandboxCall
  /\ metadataFile = NoFile
  /\ clock = 0

SpecKeys == InitKeys /\ [][NextKeys]_vars

\* the metadata a sandbox root may hold when a sandbox object is created:
\* none, one an earlier run wrote, or a file that is not JSON
MetadataFiles ==
  {NoFile, File(NotJSON)}
    \cup {writeMetadata([workerId |-> "worker-0", createdAt |-> 0, lastAccessed |-> t,
                         version |-> SANDBOX_VERSION,
                         keyFingerprint |-> Fingerprint(KeyA)]) : t \in 0..1}

\* a new sandbox object on a sandbox root in any of these states
InitMetadata ==
  /\ InitRouter /\ InitPool /\ DefaultConfig /\ NoWait
  /\ processEnv = EmptyMap
  /\ childEnv = EmptyMap
  /\ files \in {[key |-> NoFile, id |-> NoFile],
                [key |-> File(toHex(KeyA)), id |-> File("worker-0-1700000000000-0a0b0c0d")]}
  /\ initialized = FALSE
  /\ sandboxCall = NoSandboxCall
  /\ metadataFile \in MetadataFiles
  /\ clock \in 0..1

NextMetadata ==
  \/ Initialize(KeyC, "worker-0-1700000000001-ffffffff")
  \/ Touch
  \/ Destroy
  \/ NewSandbox
  \/ AdvanceClock

SpecMetadata == InitMetadata /\ [][NextMetadata]_vars

\* ----------------------------------------------------------------------
\* waitForMessage(receiver, type, timeout)
\* ----------------------------------------------------------------------
\* the message types the receiver emits
MessageTypes == {"Ready", "Response", "Heartbeat"}

\* the messages emitted in a behaviour
MaxMessages == 3

\* the timeouts of a call, in ticks of the clock
MaxTimeout == 2

\* resolve or reject of the promise p: the first call settles it, a later
\* one is ignored; calls counts them all
SettlePromise(p, outcome, value) ==
  IF p.state = "pending"
  THEN [state |-> outcome, value |-> value, calls |-> p.calls + 1]
  ELSE [p EXCEPT !.calls = @ + 1]

\* handler that leaves itself registered
handlerStays(w, msg) ==
  IF msg.type = w.type
  THEN [w EXCEPT !.timer = FALSE,
                 !.promise = SettlePromise(@, "resolved", <<msg>>)]
  ELSE w

\* the listener handler(msg) of a call w
handler(w, msg) ==
  IF msg.type = w.type
  THEN [w EXCEPT !.timer = FALSE,
                 !.listener = FALSE,
                 !.promise = SettlePromise(@, "resolved", <<msg>>)]
  ELSE w

\* waitForMessage(receiver, type, timeout): the timer is armed, the listener
\* registered, the promise returned
WaitForMessage(type, timeout) ==
  /\ ~waiter.called
  /\ clock + timeout <= MaxClock
  /\ waiter' = [called |-> TRUE, type |-> type, timer |-> TRUE,
                deadline |-> clock + timeout, listener |-> TRUE,
                promise |-> [state |-> "pending", value |-> <<>>, calls |-> 0],
                since |-> Len(emitted)]
  /\ UNCHANGED emitted
  /\ UNCHANGED <<routerVars, ghostVars, poolVars, sandboxVars>>

\* the receiver emits a message: the listener runs when it is registered
Emit(type) ==
  /\ Len(emitted) < MaxMessages
  /\ LET msg == [type |-> type, seq |-> Len(emitted) + 1]
     IN /\ emitted' = Append(emitted, msg)
        /\ waiter' = IF waiter.called /\ waiter.listener
                      THEN handler(waiter, msg)
                      ELSE waiter
  /\ UNCHANGED <<routerVars, ghostVars, poolVars, sandboxVars>>

\* the callback of setTimeout runs, at the deadline or after it
WaitTimeout ==
  /\ waiter.called
  /\ waiter.timer
  /\ clock >= waiter.deadline
  /\ waiter' = [waiter EXCEPT !.timer = FALSE,
                              !.listener = FALSE,
                              !.promise = SettlePromise(@, "rejected", <<"Timeout">>)]
  /\ UNCHANGED emitted
  /\ UNCHANGED <<routerVars, ghostVars, poolVars, sandboxVars>>

NextWait ==
  \/ \E type \in MessageTypes, timeout \in 0..MaxTimeout : WaitForMessage(type, timeout)
  \/ \E type \in MessageTypes : Emit(type)
  \/ WaitTimeout
  \/ AdvanceClock

\* timers fire and time passes; whether a message is emitted is up to the
\* sender
SpecWait ==
  /\ Init
  /\ [][NextWait]_vars
  /\ WF_vars(WaitTimeout)
  /\ WF_vars(AdvanceClock)

\* first, without the users in S
Forget(S) == [u \in (DOMAIN first) \ S |-> first[u]]

AddWorker(w) ==
  /\ SetRouter(addWorker(ThisRouter, w))
  /\ last' = [op |-> "addWorker", workerId |-> w, fresh |-> w \notin routerWorkers,
              ring |-> ring, workers |-> routerWorkers]
  /\ UNCHANGED <<first, poolVars, sandboxVars, waitVars>>

RemoveWorker(w) ==
  /\ SetRouter(removeWorker(ThisRouter, w))
  /\ last' = [op |-> "removeWorker", workerId |-> w,
              afterAdd |-> last.op = "addWorker" /\ last.workerId = w /\ last.fresh,
              ring |-> ring,
              purged |-> {u \in DOMAIN routingCache : routingCache[u] = w}]
  /\ first' = IF w \in routerWorkers
              THEN Forget({u \in DOMAIN first : first[u] = w})
              ELSE first
  /\ UNCHANGED <<poolVars, sandboxVars, waitVars>>

Route(u) ==
  LET res == route(ThisRouter, u)
  IN /\ SetRouter(res.router)
     /\ last' = [op |-> "route", userId |-> u, error |-> res.error,
                 workerId |-> res.workerId,
                 isNewAssignment |-> res.isNewAssignment]
     /\ first' = IF res.error \/ u \in DOMAIN first
                 THEN first
                 ELSE MapSet(first, u, res.workerId)
     /\ UNCHANGED <<poolVars, sandboxVars, waitVars>>

Peek(u) ==
  /\ last' = [op |-> "peek", userId |-> u, result |-> peek(ThisRouter, u)]
  /\ UNCHANGED <<routerVars, first, poolVars, sandboxVars, waitVars>>

ForceAssign(u, w) ==
  LET res == forceAssign(ThisRouter, u, w)
  IN /\ SetRouter(res.router)
     /\ last' = [op |-> "forceAssign", userId |-> u, workerId |-> w,
                 error |-> res.error]
     /\ first' = IF res.error THEN first ELSE Forget({u})
     /\ UNCHANGED <<poolVars, sandboxVars, waitVars>>

ClearAssignment(u) ==
  /\ SetRouter(clearAssignment(ThisRouter, u))
  /\ last' = [op |-> "clearAssignment", userId |-> u]
  /\ first' = Forget({u})
  /\ UNCHANGED <<poolVars, sandboxVars, waitVars>>

ClearCache ==
  /\ SetRouter(clearCache(ThisRouter))
  /\ last' = [op |-> "clearCache"]
  /\ first' = EmptyMap
  /\ UNCHANGED <<poolVars, sandboxVars, waitVars>>

\* the router is replaced by one imported from a serialized state
FromState(state) ==
  /\ SetRouter(fromState(state))
  /\ last' = [op |-> "fromState", state |-> state,
              roundTrip |-> state = exportState(ThisRouter)]
  /\ first' = EmptyMap
  /\ UNCHANGED <<poolVars, sandboxVars, waitVars>>

NextRouter ==
  \/ \E w \in RouterWorkerIds : AddWorker(w)
  \/ \E w \in RouterWorkerIds : RemoveWorker(w)
  \/ \E u \in Users : Route(u)
  \/ \E u \in Users : Peek(u)
  \/ \E u \in Users, w \in RouterWorkerIds : ForceAssign(u, w)
  \/ \E u \in Users : ClearAssignment(u)
  \/ ClearCache
  \/ \E state \in ImportedStates : FromState(state)

SpecRouter == Init /\ [][NextRouter]_vars

\* ----------------------------------------------------------------------
\* findNode on any sorted ring
\* ----------------------------------------------------------------------
\* the longest ring findNode is called with
MaxRingLength == 3

\* 32-bit hashes, as <<high half, low half>>: the least, the greatest, and
\* values on either side of a carry between the halves
RingHashes == {<<0, 0>>, <<0, 65535>>, <<1, 0>>, <<1, 1>>, <<65535, 65535>>}
TargetHashes == RingHashes \cup {<<0, 1>>, <<1, 2>>, <<65535, 65534>>}

\* the rings of these hashes sorted ascending, equal hashes included; a
\* node is told from its neighbours by its virtual index
SortedRings ==
  {[i \in 1..Len(hs) |-> [hash |-> hs[i], workerId |-> "worker-0", virtualIndex |-> i - 1]] :
     hs \in {h \in UNION {[1..n -> RingHashes] : n \in 1..MaxRingLength} :
               \A i \in 1..(Len(h) - 1) : ~HashLess(h[i + 1], h[i])}}

\* findNode(ring, targetHash)
FindNode(r, targetHash) ==
  /\ last' = [op |-> "findNode", ring |-> r, targetHash |-> targetHash,
              result |-> findNode(r, targetHash)]
  /\ UNCHANGED <<routerVars, first, poolVars, sandboxVars, waitVars>>

NextFindNode == \E r \in SortedRings, targetHash \in TargetHashes : FindNode(r, targetHash)

SpecFindNode == Init /\ [][NextFindNode]_vars

Spec == Init /\ [][Next]_vars

\* what the event loops of the supervisor and of the children do by
\* themselves: timers fire, awaits resume, queued messages and exit events
\* are handled, time passes.  Calls from outside, faults and the end of a
\* request handler are not among them.
Scheduled ==
  \/ \E sp \in spawning : SpawnCreate(sp)
  \/ \E w \in PoolWorkerIds : StartSeesReady(w) \/ StartSeesCrashed(w)
  \/ StartTimeout
  \/ \E q \in RequestIds : RequestTimer(q)
  \/ \E c \in Children : Deliver(c) \/ HandleExit(c)
  \/ \E t \in restartTimers : RestartTimer(t)
  \/ StopKill
  \/ Tick
  \/ \E c \in Children : ChildInitBegin(c) \/ ChildRequest(c) \/ ChildShutdown(c)
  \/ \E c \in Children : ChildExit(c)

\* ----------------------------------------------------------------------
\* WorkerPool.getStatus
\* ----------------------------------------------------------------------
\* the state in the snapshot of a record: its reported health when there is
\* one, a placeholder carrying the supervisor's state otherwise
SnapshotState(rec) == IF rec.health # "none" THEN rec.health ELSE rec.state

RECURSIVE SumPending(_)
\* the sizes of the pendingRequests maps of the records in S, added up
SumPending(S) ==
  IF S = {} THEN 0
  ELSE LET c == CHOOSE x \in S : TRUE
       IN Cardinality(recs[c].pendingRequests) + SumPending(S \ {c})

getStatus ==
  [totalWorkers |-> Cardinality(DOMAIN workers),
   healthyWorkers |->
     Cardinality({w \in DOMAIN workers :
                    SnapshotState(recs[workers[w]]) \in {"ready", "busy"}}),
   busyWorkers |->
     Cardinality({w \in DOMAIN workers : SnapshotState(recs[workers[w]]) = "busy"}),
   queuedRequests |-> SumPending({workers[w] : w \in DOMAIN workers}),
   routingTableSize |-> Cardinality(DOMAIN routingCache)]

\* WorkerPool.getWorkerForUser, the worker id GatewayRouter.route puts in
\* its GatewayResponse: none (null) on an empty ring
getWorkerForUser(R, userId) == peek(R, userId)

\* the pool in service: start, requests, heartbeats, faults and restarts;
\* stop() is not called
NextService ==
  \/ Start
  \/ \E sp \in spawning : SpawnCreate(sp)
  \/ \E w \in PoolWorkerIds : StartSeesReady(w)
  \/ \E w \in PoolWorkerIds : StartSeesCrashed(w)
  \/ StartTimeout
  \/ \E u \in Users : SendRequest(u)
  \/ \E q \in RequestIds : RequestTimer(q)
  \/ \E c \in Children : Deliver(c)
  \/ \E c \in Children : HandleExit(c)
  \/ \E t \in restartTimers : RestartTimer(t)
  \/ Tick
  \/ \E c \in Children : ChildInitBegin(c)
  \/ \E c \in Children : ChildInitFinish(c)
  \/ \E c \in Children : ChildHeartbeat(c)
  \/ \E c \in Children : ChildRequest(c)
  \/ \E c \in Children, q \in RequestIds, ok \in BOOLEAN : ChildFinish(c, q, ok)
  \/ \E c \in Children : ChildUncaught(c)
  \/ \E c \in Children : ChildKilled(c)

SpecService == Init /\ [][NextService]_vars

\* the life cycle of the slots, no request being sent: start, stop, faults,
\* restarts
NextLifecycle ==
  \/ Start
  \/ \E sp \in spawning : SpawnCreate(sp)
  \/ \E w \in PoolWorkerIds : StartSeesReady(w)
  \/ \E w \in PoolWorkerIds : StartSeesCrashed(w)
  \/ StartTimeout
  \/ \E c \in Children : Deliver(c)
  \/ \E c \in Children : HandleExit(c)
  \/ \E t \in restartTimers : RestartTimer(t)
  \/ Stop
  \/ StopKill
  \/ Tick
  \/ \E c \in Children : ChildInitBegin(c)
  \/ \E c \in Children : ChildInitFinish(c)
  \/ \E c \in Children : ChildShutdown(c)
  \/ \E c \in Children : ChildShutdownDone(c)
  \/ \E c \in Children : ChildExit(c)
  \/ \E c \in Children : ChildUncaught(c)
  \/ \E c \in Children : ChildKilled(c)

\* the life cycle under a scheduler that does not stall
SpecLifecycle == Init /\ [][NextLifecycle]_vars /\ WF_vars(Scheduled)

\* worker configurations under which a limit is reached within the
\* requests of the model: a request limit of one, or a low memory limit
LimitConfigs ==
  {[maxRequests |-> 1, maxMemory |-> "512MB"],
   [maxRequests |-> DEFAULT_MAX_REQUESTS, maxMemory |-> "low"]}

InitLimits ==
  /\ InitRouter /\ InitPool /\ NoWait /\ IdleSandbox
  /\ config \in LimitConfigs

\* the pool in service under such a configuration: start, requests, faults
\* and restarts
NextLimits ==
  \/ Start
  \/ \E sp \in spawning : SpawnCreate(sp)
  \/ \E w \in PoolWorkerIds : StartSeesReady(w)
  \/ \E w \in PoolWorkerIds : StartSeesCrashed(w)
  \/ StartTimeout
  \/ \E u \in Users : SendRequest(u)
  \/ \E q \in RequestIds : RequestTimer(q)
  \/ \E c \in Children : Deliver(c)
  \/ \E c \in Children : HandleExit(c)
  \/ \E t \in restartTimers : RestartTimer(t)
  \/ Tick
  \/ \E c \in Children : ChildInitBegin(c)
  \/ \E c \in Children : ChildInitFinish(c)
  \/ \E c \in Children : ChildRequest(c)
  \/ \E c \in Children, q \in RequestIds, ok \in BOOLEAN : ChildFinish(c, q, ok)
  \/ \E c \in Children : ChildKilled(c)

\* the same, under a scheduler that does not stall
SpecLimits == InitLimits /\ [][NextLimits]_vars /\ WF_vars(Scheduled)

\* ----------------------------------------------------------------------
\* C1: stickiness: while the worker returned by the first route(u) stays
\* registered and u's entry is neither cleared nor force-assigned, every
\* later route(u) returns that same worker.
\* ----------------------------------------------------------------------
C1_Stickiness ==
  (last.op = "route" /\ ~last.error /\ last.userId \in DOMAIN first)
    => last.workerId = first[last.userId]

\* ----------------------------------------------------------------------
\* C3: every cached user maps to a registered worker, after any sequence
\* of router calls, fromState included (it drops the assignments whose
\* worker is not in the imported worker list).
\* ----------------------------------------------------------------------
C3_CacheRegistered ==
  \A u \in DOMAIN routingCache : routingCache[u] \in routerWorkers

\* a worker with cached users has just been removed while others stay cached
C3_Witness ==
  \/ /\ last.op = "removeWorker"
     /\ last.purged # {}
     /\ DOMAIN routingCache # {}
  \/ /\ last.op = "fromState"
     /\ \E i \in 1..Len(last.state.assignments) :
          last.state.assignments[i][2] \notin routerWorkers
     /\ DOMAIN routingCache # {}

\* ----------------------------------------------------------------------
\* Steps of the pool, as the claims below speak of them
\* ----------------------------------------------------------------------
\* sendRequest creates the promise of request q in this step
Dispatched(q) == q \notin DOMAIN requests /\ q \in DOMAIN requests'

\* the exit event of child c is handled in this step
ExitStep(c) == procs[c].status = "exited" /\ procs'[c].status = "reaped"

\* the timer of request q fires in this step
TimerStep(q) ==
  /\ requests[q].timer /\ requests[q].left = 0 /\ ~requests'[q].timer
  /\ outbox' = outbox /\ procs' = procs

\* a Response for request q is handled in this step
ResponseStep(c, q) ==
  /\ outbox[c] # <<>>
  /\ outbox' = [outbox EXCEPT ![c] = Tail(@)]
  /\ procs' = procs
  /\ Head(outbox[c]).type = "Response"
  /\ Head(outbox[c]).requestId = q

\* the earlier exits of slot w within the restart window
RecentExits(w) ==
  Cardinality({i \in 1..Len(exits[w]) : exits[w][i] < RestartWindow})

C4_RestartLatch ==
  [][\A c \in Children :
       (/\ ExitStep(c)
        /\ ~stopping
        /\ procs[c].workerId \in DOMAIN workers
        /\ workers[procs[c].workerId] = c
        /\ RecentExits(procs[c].workerId) >= MaxRestartAttempts)
       => /\ recs'[workers[procs[c].workerId]].state = "crashed"
          /\ restartTimers' \subseteq restartTimers]_vars

\* ----------------------------------------------------------------------
\* C5: restart window expiry: when the exit of a slot's child is handled
\* while the pool is not stopping and fewer than maxRestartAttempts earlier
\* exits of that slot lie within restartWindow (the older ones have left the
\* window), the slot is not latched Crashed: its restart is scheduled.
\* ----------------------------------------------------------------------
C5_WindowExpiry ==
  [][\A c \in Children :
       (/\ ExitStep(c)
        /\ ~stopping
        /\ procs[c].workerId \in DOMAIN workers
        /\ RecentExits(procs[c].workerId) < MaxRestartAttempts)
       => /\ recs'[workers[procs[c].workerId]].state = "stopped"
          /\ \E t \in restartTimers' :
               t.workerId = procs[c].workerId /\ t.left = RestartDelay]_vars

\* the exit number maxRestartAttempts + 1 of a slot has just been handled,
\* more than restartWindow after the first, and the restart is scheduled
C5_Witness ==
  \E w \in DOMAIN workers :
    /\ Len(exits[w]) > MaxRestartAttempts
    /\ exits[w][Len(exits[w])] = 0
    /\ exits[w][Len(exits[w]) - MaxRestartAttempts] > RestartWindow
    /\ recs[workers[w]].state = "stopped"
    /\ \E t \in restartTimers : t.workerId = w /\ t.left = RestartDelay

\* ----------------------------------------------------------------------
\* C6: exit handling: when the exit of a child is handled, every request
\* still pending on it is rejected with WorkerExited and its timer cleared,
\* the pending map of its record is empty, the process handle is cleared and
\* the state is Stopped (Crashed when the restart latch fires in the same
\* handler); no request dispatched to the child stays pending.
\* ----------------------------------------------------------------------
C6_ExitHandling ==
  [][\A c \in Children :
       ExitStep(c) =>
         /\ \A q \in DOMAIN requests :
              (requests[q].rec = c /\ requests[q].outcome = "pending")
                => (requests'[q].outcome = "WorkerExited" /\ ~requests'[q].timer)
         /\ recs'[c].live =>
              /\ recs'[c].pendingRequests = {}
              /\ ~recs'[c].process
              /\ recs'[c].state \in {"stopped", "crashed"}]_vars

\* ----------------------------------------------------------------------
\* C7: a dispatched request is settled exactly once: while it is pending its
\* timer is armed, so it is settled after requestTimeout at the latest; it
\* is settled only by a Response carrying its id (resolved on success,
\* rejected otherwise), by its own timer or by the exit of its worker; once
\* settled, no step settles it again or changes its outcome.
\* ----------------------------------------------------------------------
C7_SettlesOnce ==
  [][\A q \in DOMAIN requests :
       requests[q].outcome # "NotRunning" =>
         /\ requests'[q].settles <= 1
         /\ requests'[q].outcome = "pending" =>
              (requests'[q].timer /\ requests'[q].left \in 0..RequestTimeout)
         /\ requests[q].outcome # "pending" =>
              /\ requests'[q].outcome = requests[q].outcome
              /\ requests'[q].settles = requests[q].settles
         /\ (requests[q].outcome = "pending" /\ requests'[q].outcome # "pending") =>
              \/ /\ TimerStep(q)
                 /\ requests'[q].outcome = "RequestTimeout"
              \/ \E c \in Children :
                   /\ ResponseStep(c, q)
                   /\ requests'[q].outcome =
                        IF Head(outbox[c]).success THEN "resolved"
                        ELSE Head(outbox[c]).error
              \/ \E c \in Children :
                   /\ ExitStep(c)
                   /\ procs[c].workerId = requests[q].workerId
                   /\ requests'[q].outcome = "WorkerExited"]_vars

\* one request was resolved by its Response and another rejected by its
\* timer or by the exit of its worker, each settled once
C7_Witness ==
  \E q1, q2 \in DOMAIN requests :
    /\ requests[q1].outcome = "resolved"
    /\ requests[q1].settles = 1
    /\ requests[q2].outcome \in {"RequestTimeout", "WorkerExited"}
    /\ requests[q2].settles = 1

\* ----------------------------------------------------------------------
\* C8: request timeout: when the timer of a pending request fires, its
\* correlation is removed and the caller is rejected with RequestTimeout;
\* the other requests, the state of every slot and the other correlations
\* are unchanged; a Response for the request arriving later changes nothing.
\* ----------------------------------------------------------------------
C8_RequestTimeout ==
  [][\A q \in DOMAIN requests :
       /\ (TimerStep(q) /\ requests[q].outcome = "pending") =>
            /\ requests'[q].outcome = "RequestTimeout"
            /\ \A c \in Children :
                 recs'[c].live => q \notin recs'[c].pendingRequests
            /\ \A p \in DOMAIN requests : p # q => requests'[p] = requests[p]
            /\ workers' = workers
            /\ \A w \in DOMAIN workers :
                 /\ recs'[workers[w]].state = recs[workers[w]].state
                 /\ recs'[workers[w]].pendingRequests =
                      recs[workers[w]].pendingRequests \ {q}
       /\ (requests[q].outcome = "RequestTimeout"
             /\ \E c \in Children : ResponseStep(c, q)) =>
            /\ requests' = requests
            /\ recs' = recs
            /\ workers' = workers]_vars

\* a request has timed out, its worker is still Ready and its Response is
\* arriving late
C8_Witness ==
  \E q \in DOMAIN requests, c \in Children :
    /\ requests[q].outcome = "RequestTimeout"
    /\ outbox[c] # <<>>
    /\ Head(outbox[c]).type = "Response"
    /\ Head(outbox[c]).requestId = q
    /\ procs[c].workerId \in DOMAIN workers
    /\ workers[procs[c].workerId] = c
    /\ recs[c].state = "ready"

C10_Drained ==
  ~started =>
    \A q \in DOMAIN requests :
      ~(requests[q].draining /\ requests[q].outcome = "pending")

\* ----------------------------------------------------------------------
\* More steps and state tests of the pool
\* ----------------------------------------------------------------------
\* sendRequest is called in this step
SendStep ==
  /\ started /\ started' /\ inputs' = inputs + 1
  /\ procs' = procs /\ stopping' = stopping

\* the supervisor holds a record for slot w whose state is Ready or Busy
SlotHealthy(w) == w \in DOMAIN workers /\ Healthy(recs[workers[w]])

\* the ring owner of user u
Owner(u) == peek(ThisRouter, u)

C12_NoHealthyWorkers ==
  [][(started /\ ~\E w \in DOMAIN workers : SlotHealthy(w)) =>
       /\ \A u \in Users : SendError(u) = "NoHealthyWorkers"
       /\ SendStep =>
            /\ inbox' = inbox
            /\ requests' = requests
            /\ recs' = recs
            /\ workers' = workers
            /\ \A u \in DOMAIN routingCache' :
                 \/ u \in DOMAIN routingCache /\ routingCache'[u] = routingCache[u]
                 \/ routingCache'[u] \in Owner(u)]_vars

\* the pool is started, no worker is Ready or Busy, and a sendRequest has
\* been refused: route() has cached a user although no request was ever
\* registered
C12_Witness ==
  /\ started
  /\ ~\E w \in DOMAIN workers : SlotHealthy(w)
  /\ DOMAIN workers # {}
  /\ DOMAIN requests = {}
  /\ DOMAIN routingCache # {}
  /\ ~stopping

\* ----------------------------------------------------------------------
\* C13: a worker's exit and respawn do not modify the router: the step that
\* handles an exit, the step of a restart timer and the step that forks a
\* child leave the ring, the registered workers and the cache unchanged;
\* and route() gives every user the worker its latest request went to,
\* however often that worker has exited and been restarted since.
\* ----------------------------------------------------------------------
C13_RouterSurvivesRestart ==
  [][/\ \A c \in Children :
          (\/ ExitStep(c)
           \/ procs[c].status = "none" /\ procs'[c].status = "running") =>
            UNCHANGED routerVars
     /\ restartTimers' # restartTimers => UNCHANGED routerVars
     /\ \A u \in DOMAIN served :
          /\ ~route(ThisRouter, u).error
          /\ route(ThisRouter, u).workerId = served[u]
          /\ served[u] \in routerWorkers]_vars

\* the only request ever sent ended with the exit of its worker, and the
\* worker has been restarted and is Ready again
C13_Witness ==
  /\ DOMAIN requests = {1}
  /\ requests[1].outcome = "WorkerExited"
  /\ \E u \in DOMAIN served :
       /\ SlotHealthy(served[u])
       /\ \E d \in ChildrenOf(served[u]) : d < workers[served[u]]
       /\ routingCache[u] = served[u]

\* ----------------------------------------------------------------------
\* C14: auto-recovery: spawnWorker is called for a restart only when the
\* slot's restart timer has run out and the pool is not stopping; a slot
\* whose restart timer is armed while the pool is not stopping is
\* eventually respawned under the same worker id, its new record Starting,
\* unless stop() intervenes; and the record of a slot is Ready once the
\* Ready message of its child has been handled.
\* ----------------------------------------------------------------------
\* a restart of slot w is scheduled and a child can still be forked for it
RestartDue(w) ==
  /\ \E t \in restartTimers : t.workerId = w
  /\ ~stopping
  /\ \E c \in ChildrenOf(w) : procs[c].status = "none"

\* the slot has a new record, Starting, with a forked child
Respawned(w) ==
  /\ w \in DOMAIN workers
  /\ recs[workers[w]].state = "starting"
  /\ recs[workers[w]].workerId = w
  /\ recs[workers[w]].process
  /\ procs[workers[w]].status = "running"

\* the child of the slot's record has sent Ready
ReportedReady(c) ==
  /\ procs[c].status = "running"
  /\ procs[c].workerId \in DOMAIN workers
  /\ workers[procs[c].workerId] = c
  /\ \E i \in 1..Len(outbox[c]) : outbox[c][i].type = "Ready"

C14_AutoRecovery ==
  /\ [][/\ \A sp \in spawning' \ spawning :
            sp.origin # 0 =>
              /\ ~stopping
              /\ \E t \in restartTimers \ restartTimers' :
                   t.workerId = sp.workerId /\ t.left = 0
       /\ \A c \in Children :
            (/\ ReportedReady(c)
             /\ Head(outbox[c]).type = "Ready"
             /\ outbox' = [outbox EXCEPT ![c] = Tail(@)]
             /\ procs' = procs) =>
              recs'[c].state = "ready"]_vars
  /\ \A w \in PoolWorkerIds : RestartDue(w) ~> (Respawned(w) \/ stopping)

\* a slot has been respawned by its restart timer and its new child has
\* reported Ready
C14_Witness ==
  \E c \in Children :
    /\ ReportedReady(c)
    /\ recs[c].state = "starting"
    /\ \E d \in ChildrenOf(procs[c].workerId) : d < c /\ procs[d].status = "reaped"
    /\ ~startWait.active

\* ----------------------------------------------------------------------
\* C15: crash isolation: the step that handles the exit of a child, and the
\* step that handles a message of a child, change no record but the one
\* the workers map holds for the child's slot, and no request but those
\* pending on that record.
\* ----------------------------------------------------------------------
\* a message or the exit event of child c is handled in this step
ChildEventStep(c) ==
  \/ ExitStep(c)
  \/ /\ outbox[c] # <<>>
     /\ outbox' = [outbox EXCEPT ![c] = Tail(@)]
     /\ procs' = procs

C15_CrashIsolation ==
  [][\A c \in Children :
       ChildEventStep(c) =>
         /\ \A d \in Children :
              (/\ recs[d].live
               /\ recs'[d].live
               /\ ~(procs[c].workerId \in DOMAIN workers
                      /\ workers[procs[c].workerId] = d)) =>
                recs'[d] = recs[d]
         /\ \A q \in DOMAIN requests :
              ~(/\ procs[c].workerId \in DOMAIN workers
                /\ q \in recs[workers[procs[c].workerId]].pendingRequests) =>
                requests'[q] = requests[q]
         /\ \A w \in DOMAIN workers' : w \in DOMAIN workers /\ workers'[w] = workers[w]]_vars

\* the exit of a slot's child has just been handled while a request is
\* pending on the other slot, which is Ready
C15_Witness ==
  \E t \in restartTimers, q \in DOMAIN requests :
    /\ t.left = RestartDelay
    /\ procs[t.child].status = "reaped"
    /\ requests[q].outcome = "pending"
    /\ requests[q].workerId # t.workerId
    /\ SlotHealthy(requests[q].workerId)
    /\ q \in recs[workers[requests[q].workerId]].pendingRequests

\* ----------------------------------------------------------------------
\* C16: start() waits for every one of the workerCount slots; the wait for
\* a slot ends well only when the slot's record is Ready; the pool is
\* marked started only when the last of these waits ends well; a start()
\* that ends while a slot it waits for is not Ready leaves the pool not
\* started; and no wait outlasts the startup timeout.
\* ----------------------------------------------------------------------
\* the supervisor's record of slot w is Ready
SlotReady(w) == w \in DOMAIN workers /\ recs[workers[w]].state = "ready"

C16_StartWaitsForAll ==
  [][/\ (~startWait.active /\ startWait'.active) =>
          /\ startWait'.waiting = PoolWorkerIds
          /\ Cardinality(startWait'.waiting) = WorkerCount
          /\ startWait'.left = StartupTimeout
          /\ ~started'
     /\ (startWait.active /\ startWait'.active) =>
          /\ startWait'.waiting \subseteq startWait.waiting
          /\ \A w \in startWait.waiting \ startWait'.waiting : SlotReady(w)
          /\ startWait'.left \in {startWait.left, startWait.left - 1}
          /\ startWait'.left >= 0
          /\ started' = started
     /\ (~started /\ started') =>
          /\ startWait.active
          /\ ~startWait'.active
          /\ \E w \in PoolWorkerIds : startWait.waiting = {w} /\ SlotReady(w)
     /\ (/\ startWait.active
         /\ ~startWait'.active
         /\ \/ Cardinality(startWait.waiting) > 1
            \/ \E w \in startWait.waiting : ~SlotReady(w)) =>
          ~started'
     /\ (/\ startWait.active
         /\ startWait.left = 0
         /\ \E w \in PoolWorkerIds : Polling(w)) =>
          startWait'.left = 0]_vars

\* start() has resolved, nothing else was called, and every slot is Ready
C16_Witness ==
  /\ started
  /\ inputs = 1
  /\ startWait = NoStart
  /\ \A w \in PoolWorkerIds : SlotReady(w)

\* ----------------------------------------------------------------------
\* C17: status snapshot: getStatus() reports healthyWorkers equal to the
\* number of slots whose lifecycle state is Ready or Busy, busyWorkers
\* equal to the number of slots in Busy, queuedRequests equal to the sum
\* of the sizes of the pending-request maps and routingTableSize equal to
\* the size of the router cache.
\* ----------------------------------------------------------------------
C17_StatusSnapshot ==
  /\ getStatus.healthyWorkers =
       Cardinality({w \in DOMAIN workers :
                      recs[workers[w]].state \in {"ready", "busy"}})
  /\ getStatus.busyWorkers =
       Cardinality({w \in DOMAIN workers : recs[workers[w]].state = "busy"})
  /\ getStatus.queuedRequests =
       Cardinality({q \in DOMAIN requests :
                      \E w \in DOMAIN workers : q \in recs[workers[w]].pendingRequests})
  /\ getStatus.routingTableSize = Cardinality(DOMAIN routingCache)

\* ----------------------------------------------------------------------
\* C18: for every GatewayRouter.route call answered by a worker, the
\* workerId of the GatewayResponse is the id of the worker the request was
\* dispatched to and processed by: in the step that resolves a request
\* with the Response of a child, getWorkerForUser gives, for the request's
\* user, the worker id of the request and of that child.
\* ----------------------------------------------------------------------
C18_ReportedWorker ==
  [][\A c \in Children, q \in DOMAIN requests :
       (/\ ResponseStep(c, q)
        /\ requests[q].outcome = "pending"
        /\ requests'[q].outcome = "resolved") =>
         /\ procs[c].workerId = requests[q].workerId
         /\ getWorkerForUser(Router(ring', routerWorkers', routingCache'),
                             requests[q].userId) = {requests[q].workerId}]_vars

\* the nodes of worker w on the ring
NodesOf(w) == {i \in 1..Len(ring) : ring[i].workerId = w}

\* ----------------------------------------------------------------------
\* C19: ring consistency: after any sequence of addWorker and removeWorker
\* calls the ring holds exactly virtualNodes nodes of each registered
\* worker, virtualNodes * |workers| nodes in all, and no node of a worker
\* that is not registered.
\* ----------------------------------------------------------------------
C19_RingConsistency ==
  /\ Len(ring) = VirtualNodes * Cardinality(routerWorkers)
  /\ \A w \in routerWorkers :
       /\ Cardinality(NodesOf(w)) = VirtualNodes
       /\ {ring[i].virtualIndex : i \in NodesOf(w)} = 0..(VirtualNodes - 1)
  /\ \A i \in 1..Len(ring) : ring[i].workerId \in routerWorkers

\* a worker has just been removed from a ring of three, two stay
C19_Witness ==
  /\ last.op = "removeWorker"
  /\ last.workerId \notin routerWorkers
  /\ Cardinality(routerWorkers) = 2
  /\ Len(ring) = 2 * VirtualNodes

\* ----------------------------------------------------------------------
\* C20: for a worker w that is not registered, addWorker(w) followed by
\* removeWorker(w) leaves the ring (same nodes, same order) and the worker
\* set as they were before the addWorker, and afterwards no cache entry
\* names w.
\* ----------------------------------------------------------------------
C20_AddRemoveRoundTrip ==
  [][(/\ last.op = "addWorker"
      /\ last.fresh
      /\ last'.op = "removeWorker"
      /\ last'.workerId = last.workerId) =>
        /\ ring' = last.ring
        /\ routerWorkers' = last.workers
        /\ \A u \in DOMAIN routingCache' : routingCache'[u] # last.workerId]_vars

\* a worker was added to a ring whose nodes lie on both sides of its own,
\* with a user cached, and has been removed again
C20_Witness ==
  /\ last.op = "removeWorker"
  /\ last.afterAdd
  /\ routerWorkers # {}
  /\ routingCache # EmptyMap
  /\ \E i, j \in 1..Len(ring) :
       \E k \in 0..(VirtualNodes - 1) :
         /\ HashLess(ring[i].hash, VirtualKeyHash[last.workerId][k])
         /\ HashLess(VirtualKeyHash[last.workerId][k], ring[j].hash)

\* the router after the step
RouterAfter == Router(ring', routerWorkers', routingCache')

\* ----------------------------------------------------------------------
\* C21: addWorker leaves the assignment cache unchanged: every user cached
\* before addWorker(w) has the same cache entry afterwards, and route(u)
\* still returns its prior worker with isNewAssignment = false.
\* ----------------------------------------------------------------------
C21_AddKeepsCache ==
  [][last'.op = "addWorker" =>
       /\ routingCache' = routingCache
       /\ \A u \in DOMAIN routingCache :
            LET res == route(RouterAfter, u)
            IN /\ ~res.error
               /\ res.workerId = routingCache[u]
               /\ ~res.isNewAssignment]_vars

\* ----------------------------------------------------------------------
\* C22: purge on remove: after removeWorker(w), with at least one other
\* worker still registered, route(u) for every user u that was cached on w
\* returns a registered worker different from w.
\* ----------------------------------------------------------------------
C22_PurgeOnRemove ==
  [][(/\ last'.op = "removeWorker"
      /\ last'.workerId \in routerWorkers
      /\ routerWorkers' # {}) =>
        \A u \in DOMAIN routingCache :
          routingCache[u] = last'.workerId =>
            LET res == route(RouterAfter, u)
            IN /\ ~res.error
               /\ res.workerId # last'.workerId
               /\ res.workerId \in routerWorkers']_vars

\* a worker on which users were cached has been removed, another is left
C22_Witness ==
  /\ last.op = "removeWorker"
  /\ last.purged # {}
  /\ last.workerId \notin routerWorkers
  /\ routerWorkers # {}

\* the cache entry of user u can be used: it names a registered worker
Usable(u) == u \in DOMAIN routingCache /\ routingCache[u] \in routerWorkers

\* ----------------------------------------------------------------------
\* C23: route(u) returns isNewAssignment = true exactly when u had no
\* usable cache entry immediately before the call, and then caches the
\* ring lookup; otherwise it returns the cached worker with
\* isNewAssignment = false and leaves the cache unchanged.
\* ----------------------------------------------------------------------
C23_NewAssignment ==
  [][(last'.op = "route" /\ ~last'.error) =>
       /\ last'.isNewAssignment <=> ~Usable(last'.userId)
       /\ ~Usable(last'.userId) =>
            /\ {last'.workerId} = peek(ThisRouter, last'.userId)
            /\ routingCache' = MapSet(routingCache, last'.userId, last'.workerId)
       /\ Usable(last'.userId) =>
            /\ last'.workerId = routingCache[last'.userId]
            /\ routingCache' = routingCache]_vars

\* ----------------------------------------------------------------------
\* C24: peek purity: peek(u) leaves the cache, the worker set and the ring
\* unchanged and returns the ring lookup for u, null on an empty ring,
\* whatever entry the cache holds for u.
\* ----------------------------------------------------------------------
C24_PeekPurity ==
  [][last'.op = "peek" =>
       /\ UNCHANGED routerVars
       /\ Len(ring) = 0 => last'.result = {}
       /\ Len(ring) > 0 =>
            last'.result = {findNode(ring, UserHash[last'.userId]).workerId}]_vars

\* a peek for a user whose cache entry names another worker than the ring
\* gives it
C24_Witness ==
  /\ last.op = "peek"
  /\ last.userId \in DOMAIN routingCache
  /\ last.result # {}
  /\ last.result # {routingCache[last.userId]}

\* ----------------------------------------------------------------------
\* C25: export/import round trip: for every reachable router r,
\* fromState(exportState(r)) has the worker set, the assignment cache and
\* the virtualNodes of r, and its route(u) returns the worker r's route(u)
\* returns, for every user u.
\* ----------------------------------------------------------------------
C25_ExportImport ==
  [][(last'.op = "fromState" /\ last'.roundTrip) =>
       /\ routerWorkers' = routerWorkers
       /\ routingCache' = routingCache
       /\ last'.state.virtualNodes = VirtualNodes
       /\ \A w \in routerWorkers' :
            Cardinality({i \in 1..Len(ring') : ring'[i].workerId = w}) = VirtualNodes
       /\ \A u \in Users :
            /\ route(RouterAfter, u).error = route(ThisRouter, u).error
            /\ route(RouterAfter, u).workerId = route(ThisRouter, u).workerId]_vars

\* a router with two workers and a user whose entry differs from its ring
\* lookup has been exported and imported
C25_Witness ==
  /\ last.op = "fromState"
  /\ last.roundTrip
  /\ Cardinality(routerWorkers) >= 2
  /\ \E u \in DOMAIN routingCache : peek(ThisRouter, u) # {routingCache[u]}

\* ----------------------------------------------------------------------
\* C26: forceAssign(u, w) with w not registered fails and leaves the
\* cache, the worker set and the ring unchanged; with w registered it
\* installs u -> w, so that the next route(u) returns w whatever the ring
\* lookup for u is.
\* ----------------------------------------------------------------------
C26_ForceAssign ==
  [][last'.op = "forceAssign" =>
       /\ last'.error <=> last'.workerId \notin routerWorkers
       /\ last'.error => UNCHANGED routerVars
       /\ ~last'.error =>
            /\ routingCache' = MapSet(routingCache, last'.userId, last'.workerId)
            /\ ring' = ring /\ routerWorkers' = routerWorkers
            /\ ~route(RouterAfter, last'.userId).error
            /\ route(RouterAfter, last'.userId).workerId = last'.workerId]_vars

\* the ring lookup for user u on ring r: the set holding the worker, empty
\* on an empty ring
Lookup(r, u) == peek(Router(r, {}, EmptyMap), u)

\* ----------------------------------------------------------------------
\* C27: minimal reshuffling of ring lookups: for every user u, removing a
\* worker w changes the ring lookup peek(u) only if that lookup was w, and
\* adding a worker w leaves peek(u) unchanged or changes it to w.
\* ----------------------------------------------------------------------
C27_MinimalReshuffling ==
  [][/\ last'.op = "removeWorker" =>
          \A u \in Users :
            Lookup(ring', u) # Lookup(ring, u) => Lookup(ring, u) = {last'.workerId}
     /\ last'.op = "addWorker" =>
          \A u \in Users :
            Lookup(ring', u) = Lookup(ring, u) \/ Lookup(ring', u) = {last'.workerId}]_vars

\* a worker has just joined or left a ring shared with another worker: the
\* lookup of one user moved to it or away from it, the lookup of another
\* user stayed with the other worker
C27_Witness ==
  /\ last.op \in {"addWorker", "removeWorker"}
  /\ ring # <<>> /\ last.ring # <<>>
  /\ \E u, v \in Users :
       /\ Lookup(ring, u) # Lookup(last.ring, u)
       /\ Lookup(ring, v) = Lookup(last.ring, v)
  /\ last.op = "removeWorker" => \E u \in Users : Lookup(last.ring, u) = {last.workerId}

\* ----------------------------------------------------------------------
\* C28: env filtering: the environment given to a forked child holds no
\* variable inherited from the parent whose name matches a sensitive
\* pattern (the listed names and the suffixes _TOKEN, _SECRET, _API_KEY,
\* _PASSWORD, _PRIVATE_KEY, in any case of letters), keeps every other
\* parent variable, and holds every sandbox variable with the sandbox's
\* value.
\* ----------------------------------------------------------------------
C28_EnvFiltering ==
  sandboxCall.op = "fork" =>
    LET provided == getEnvironment(sandboxCall.workerId)
    IN /\ \A k \in DOMAIN provided : k \in DOMAIN childEnv /\ childEnv[k] = provided[k]
       /\ \A k \in DOMAIN processEnv :
            processEnv[k] # Undefined =>
              IF k \in DOMAIN provided THEN childEnv[k] = provided[k]
              ELSE IF \/ toUpperCase(k) \in SensitiveNames
                      \/ \E suffix \in SensitiveSuffixes : EndsWith(toUpperCase(k), suffix)
                   THEN k \notin DOMAIN childEnv
                   ELSE k \in DOMAIN childEnv /\ childEnv[k] = processEnv[k]
       /\ \A k \in DOMAIN childEnv : k \in DOMAIN provided \/ k \in DOMAIN processEnv

\* a child forked in a parent environment that holds the three variables of
\* the example, one in lower case, and variables that stay
C28_Witness ==
  /\ sandboxCall.op = "fork"
  /\ {"ANTHROPIC_API_KEY", "anthropic_api_key", "FOO_TOKEN", "MY_PASSWORD",
      "PATH", "TOKEN", "TMPDIR"} \subseteq DOMAIN processEnv
  /\ "PATH" \in DOMAIN childEnv
  /\ "FOO_TOKEN" \notin DOMAIN childEnv

\* path p is the directory root or lies below it
IsUnder(root, p) == Len(p) >= Len(root) /\ SubSeq(p, 1, Len(root)) = root

KeysStep ==
  /\ sandboxCall'.op \in {"initialize", "getInstanceKeys", "getOrCreateInstanceKeys"}
  /\ sandboxCall'.ran
  /\ sandboxCall' # sandboxCall \/ files' # files

\* ----------------------------------------------------------------------
\* C30: instance key persistence: whenever keys/instance.key exists,
\* initialize() and getOrCreateInstanceKeys() leave the key file unchanged
\* and return that key, with a fingerprint equal to its first 8 bytes in
\* hex; a new key is generated only when no instance.key exists.
\* ----------------------------------------------------------------------
C30_KeyPersistence ==
  [][KeysStep =>
       /\ files.key.exists =>
            /\ files'.key = files.key
            /\ sandboxCall'.keys.privateKey = fromHex(trim(files.key.content))
            /\ sandboxCall'.keys.fingerprint =
                 toHex(SubSeq(sandboxCall'.keys.privateKey, 1, FingerprintLength))
       /\ sandboxCall'.generated => ~files.key.exists]_vars

\* the step is a call of initialize()
InitializeStep == sandboxCall'.op = "initialize" /\ clock' = clock

\* createdAt of the metadata in the file f
CreatedAt(f) == getMetadata(f).value.createdAt

\* ----------------------------------------------------------------------
\* C31: sandbox metadata persistence: initialize() on a sandbox root that
\* already has metadata, through the same WorkerSandbox object or a new
\* one, preserves createdAt; initialize() after destroy() writes metadata
\* whose createdAt is the time of the new initialization, which is not the
\* createdAt of the destroyed sandbox once time has passed since then.
\* ----------------------------------------------------------------------
C31_MetadataPersistence ==
  [][InitializeStep =>
       /\ ~getMetadata(metadataFile).isNull =>
            /\ ~getMetadata(metadataFile').isNull
            /\ CreatedAt(metadataFile') = CreatedAt(metadataFile)
       /\ sandboxCall.op = "destroy" =>
            /\ ~getMetadata(metadataFile').isNull
            /\ CreatedAt(metadataFile') = clock
            /\ (/\ ~sandboxCall.metadata.isNull
                /\ sandboxCall.metadata.value.createdAt < clock)
                 => CreatedAt(metadataFile') # sandboxCall.metadata.value.createdAt]_vars

\* initialize() has run after the destroy() of a sandbox created earlier
C31_Witness ==
  /\ sandboxCall.op = "initialize"
  /\ sandboxCall.ran
  /\ sandboxCall.after = "destroy"
  /\ ~sandboxCall.destroyed.isNull
  /\ sandboxCall.destroyed.value.createdAt < clock
  /\ CreatedAt(metadataFile) = clock

\* the messages of the expected type the listener of the call has received
\* up to the n-th emitted one
MatchesUpTo(n) ==
  {i \in (waiter.since + 1)..n : emitted[i].type = waiter.type}

\* the promise of the call is settled
Settled == waiter.called /\ waiter.promise.state # "pending"

\* the safety part of C32
WaitSettlesOnce ==
  waiter.called =>
    /\ waiter.promise.calls <= 1
    /\ waiter.promise.state = "pending" =>
         /\ waiter.listener /\ waiter.timer
         /\ MatchesUpTo(Len(emitted)) = {}
    /\ waiter.promise.state = "resolved" =>
         /\ ~waiter.listener /\ ~waiter.timer
         /\ LET msg == waiter.promise.value[1]
            IN /\ msg.seq \in MatchesUpTo(Len(emitted))
               /\ \A i \in MatchesUpTo(Len(emitted)) : msg.seq <= i
    /\ waiter.promise.state = "rejected" =>
         /\ ~waiter.listener /\ ~waiter.timer
         /\ waiter.promise.value = <<"Timeout">>
         /\ clock >= waiter.deadline

\* ----------------------------------------------------------------------
\* C32: waitForMessage(receiver, type, timeout) settles exactly once: it
\* resolves with the first received message of the expected type, other
\* types being ignored, if one arrives before the timeout fires, otherwise
\* it rejects on timeout; once settled, its listener is no longer
\* registered and its timer no longer armed.
\* ----------------------------------------------------------------------
C32_WaitForMessage ==
  /\ []WaitSettlesOnce
  /\ [][Settled => waiter' = waiter]_vars
  /\ (waiter.called ~> Settled)

\* the call was resolved by a message of the expected type that came after
\* one of another type, and a later message of the expected type followed
C32_Witness ==
  /\ Settled
  /\ waiter.promise.state = "resolved"
  /\ waiter.promise.value[1].seq = waiter.since + 2
  /\ emitted[waiter.since + 1].type # waiter.type
  /\ Len(emitted) = waiter.since + 3
  /\ emitted[waiter.since + 3].type = waiter.type

\* child c has a limit event on its way to the supervisor
LimitReported(c) ==
  /\ Running(c)
  /\ \E i \in 1..Len(outbox[c]) :
       outbox[c][i].type = "Event" /\ outbox[c][i].event = "error"

\* the step ends a request handler of child c
FinishStep(c) ==
  /\ Running(c)
  /\ procs'[c].activeRequests # procs[c].activeRequests
  /\ procs'[c].activeRequests \subseteq procs[c].activeRequests

\* ----------------------------------------------------------------------
\* C33: limit handling: a worker whose requestsProcessed has reached
\* maxRequests emits a limit Event after the Response of the completed
\* request, and a worker that has emitted a limit Event (request or memory
\* limit) exits, so that the supervisor restarts its slot.
\* ----------------------------------------------------------------------
C33_LimitHandling ==
  /\ [][\A c \in Children :
          (FinishStep(c) /\ procs'[c].requestsProcessed >= config.maxRequests) =>
            /\ Len(outbox'[c]) >= Len(outbox[c]) + 2
            /\ outbox'[c][Len(outbox'[c])] = LimitEvent("request_limit")
            /\ \E i \in (Len(outbox[c]) + 1)..(Len(outbox'[c]) - 1) :
                 outbox'[c][i].type = "Response"]_vars
  /\ \A c \in Children : LimitReported(c) ~> (procs[c].status = "exited")

\* child c is between Init and Shutdown: handleInit has set Ready, no
\* Shutdown has been received, the process runs
InService(c) ==
  /\ Running(c)
  /\ procs[c].init = "done"
  /\ procs[c].shutdown = "none"

\* ----------------------------------------------------------------------
\* C34: in the child, a request is removed from activeRequests when its
\* handler finishes, whether it succeeded or failed; between Init and
\* Shutdown the child's state is Busy exactly while activeRequests is
\* non-empty and Ready exactly while it is empty.
\* ----------------------------------------------------------------------
C34_BusyWhileActive ==
  /\ [](\A c \in Children :
          InService(c) =>
            /\ procs[c].state = "busy" <=> procs[c].activeRequests # {}
            /\ procs[c].state = "ready" <=> procs[c].activeRequests = {})
  /\ [][\A c \in Children :
          \A i \in 1..Len(outbox'[c]) :
            (/\ i > Len(outbox[c])
             /\ outbox'[c][i].type = "Response"
             /\ outbox'[c][i].from = "handler")
              => outbox'[c][i].requestId \notin procs'[c].activeRequests]_vars

\* ----------------------------------------------------------------------
\* C35: child shutdown is one-way: once the child has received Shutdown
\* and entered Stopping, its state, which is also what its heartbeats
\* report, stays Stopping until it becomes Stopped and then stays Stopped;
\* it never goes back to Ready or Busy, whatever requests finish or arrive
\* during the grace period.
\* ----------------------------------------------------------------------
C35_ShutdownOneWay ==
  [][\A c \in Children :
       (Running(c) /\ procs[c].shutdown # "none") =>
         /\ procs'[c].state \in {"stopping", "stopped"}
         /\ procs[c].state = "stopped" => procs'[c].state = "stopped"]_vars

\* the nodes of ring r whose hash is not below targetHash, by position
AtOrAbove(r, targetHash) == {i \in 1..Len(r) : ~HashLess(r[i].hash, targetHash)}

\* the lookup by a linear scan from the lowest hash
LinearScan(r, targetHash) ==
  IF AtOrAbove(r, targetHash) = {} THEN r[1]
  ELSE r[CHOOSE i \in AtOrAbove(r, targetHash) :
           \A j \in AtOrAbove(r, targetHash) : i <= j]

\* ----------------------------------------------------------------------
\* C36: ring lookup correctness: on every non-empty ring sorted ascending
\* by hash and for every target hash, findNode returns the first node
\* whose hash is at or above the target, or the lowest-hash node when no
\* node's hash is; its result is that of a linear scan.
\* ----------------------------------------------------------------------
C36_RingLookup ==
  last.op = "findNode" =>
    /\ last.result = LinearScan(last.ring, last.targetHash)
    /\ \/ /\ ~HashLess(last.result.hash, last.targetHash)
          /\ \A i \in 1..last.result.virtualIndex :
               HashLess(last.ring[i].hash, last.targetHash)
       \/ /\ \A i \in 1..Len(last.ring) : HashLess(last.ring[i].hash, last.targetHash)
          /\ last.result = last.ring[1]

\* a lookup that wraps around on a ring of several nodes
C36_Witness ==
  /\ last.op = "findNode"
  /\ Len(last.ring) = MaxRingLength
  /\ last.ring[1].hash # last.ring[MaxRingLength].hash
  /\ HashLess(last.ring[MaxRingLength].hash, last.targetHash)
  /\ last.result = last.ring[1]

\* the pool as stop() leaves it when it resolves, no start() running: not
\* started, not stopping, an empty worker map
PoolStopped ==
  /\ ~started
  /\ ~stopping
  /\ ~startWait.active
  /\ workers = EmptyMap

\* ----------------------------------------------------------------------
\* C37: after stop() has resolved the pool stays stopped: until start() is
\* called again the worker map stays empty and no child process is
\* forked, whatever restart timer or spawnWorker call was pending when
\* stop() ran.
\* ----------------------------------------------------------------------
C37_StaysStopped ==
  [][PoolStopped =>
       /\ workers' = EmptyMap
       /\ \A c \in Children : procs[c].status = "none" => procs'[c].status = "none"]_vars

\* the running child processes of slot w
LiveChildren(w) == {c \in ChildrenOf(w) : Running(c)}

\* ----------------------------------------------------------------------
\* C38: at most one live child process exists per worker slot at any
\* time, and the exit of a child affects only the worker record forked
\* with that child, under any interleaving of start(), restarts, exits and
\* stop(), repeated start() calls after a failed start included.
\* ----------------------------------------------------------------------
C38_OneChildPerSlot ==
  /\ [](\A w \in PoolWorkerIds : Cardinality(LiveChildren(w)) <= 1)
  /\ [][\A c \in Children :
          ExitStep(c) =>
            \A d \in Children \ {c} : recs'[d].live => recs'[d] = recs[d]]_vars

\* the Responses child c sends in this step
NewResponses(c) ==
  {i \in (Len(outbox[c]) + 1)..Len(outbox'[c]) : outbox'[c][i].type = "Response"}

\* ----------------------------------------------------------------------
\* C39: the child sends exactly one Response per received Request id: a
\* Response is sent only for a request the child has received and has not
\* answered yet, be it the handler's Response or the WORKER_SHUTDOWN
\* failure synthesized at the shutdown deadline, and no step sends two
\* for one id.
\* ----------------------------------------------------------------------
C39_OneResponse ==
  [][\A c \in Children :
       Running(c) =>
         /\ \A i \in NewResponses(c) :
              /\ outbox'[c][i].requestId \in procs[c].activeRequests
              /\ outbox'[c][i].requestId \notin procs[c].answered
         /\ \A i, j \in NewResponses(c) :
              outbox'[c][i].requestId = outbox'[c][j].requestId => i = j]_vars

\* the supervisor has sent Shutdown to child c: the message is queued or
\* the child has received it
ShutdownSent(c) ==
  \/ \E i \in 1..Len(inbox[c]) : inbox[c][i].type = "Shutdown"
  \/ procs[c].status = "running" /\ procs[c].shutdown # "none"

\* ----------------------------------------------------------------------
\* C40: once the supervisor has sent Shutdown to a worker during stop(),
\* it sends no further Request to that worker: a sendRequest that arrives
\* while stop() is in progress is not dispatched to a worker that is
\* shutting down.
\* ----------------------------------------------------------------------
C40_NoRequestAfterShutdown ==
  [][\A c \in Children :
       ShutdownSent(c) =>
         \A i \in (Len(inbox[c]) + 1)..Len(inbox'[c]) : inbox'[c][i].type # "Request"]_vars

====
